---- MODULE Spec2Model ----
(***************************************************************************)
(* A model of the sampling engine of sps30_tray_logger_win.py: the         *)
(* DataStore (a time-ordered deque trimmed on insert), the read-and-       *)
(* normalise pipeline of SPS30Reader._read_measurement, and the            *)
(* connection / sampling state machine of SPS30Reader._run.                *)
(***************************************************************************)
EXTENDS Integers, Sequences, FiniteSets, TLC

None == "None"
\* An optional number (a datetime, a timedelta or None): Nil is None, Some(x) is x.
Nil == <<>>
Some(x) == <<x>>
Val(o) == o[1]

(***************************************************************************)
(* State of the DataStore.                                                 *)
(***************************************************************************)
VARIABLES
    samples,       \* DataStore.samples: the deque, oldest at index 1
    clock,         \* datetime.now() as seen by the DataStore, in weeks
    window,        \* the list most recently returned by get_window
    windowArg,     \* the window_td of that call (None or a duration)
    windowNow,     \* the value of now that call read
    lastAddTime,   \* history: the clock at the last add() (None before any)
    lastAddedTs,   \* history: the ts of the sample given to the last add()
    addsInOrder,   \* history: every add() so far had ts >= the previous one's
    lock,          \* DataStore.lock: None, or the call that holds it
    addPc,         \* position of the thread calling add()
    addArg,        \* the ts of the sample that call was given
    addCutoff,     \* the local variable cutoff of add()
    getPc,         \* position of the thread calling get_window()
    getArg,        \* the window_td of that call
    getNow,        \* the local variable now of get_window()
    addBefore,     \* history: the deque when the latest add() was called
    addAfter,      \* history: the deque when it returned (Nil until then)
    readTag,       \* history: "cur" if get_window read the deque since then
    readDuring     \* history: that read happened between call and return

lockVars == <<lock, addPc, addArg, addCutoff, getPc, getArg, getNow,
              addBefore, addAfter, readTag, readDuring>>

storeVars == <<samples, clock, window, windowArg, windowNow,
               lastAddTime, lastAddedTs, addsInOrder, lockVars>>

(***************************************************************************)
(* State of one call of SPS30Reader._read_measurement taken on its own.    *)
(***************************************************************************)
VARIABLES
    readKind,      \* which read method the device has: "legacy" or "modern"
    readInput,     \* the driver's response to the read
    readDone,      \* history: _read_measurement has been called on readInput
    readOutput     \* what _read_measurement returned for it: Nil (None) or Some(Sample)


readVars == <<readKind, readInput, readDone, readOutput>>

(***************************************************************************)
(* State of one call of SPS30Reader._ensure_started taken on its own.      *)
(***************************************************************************)
VARIABLES
    ensureInput,   \* the reader's fields and the driver's behaviour at the call
    ensureOutput   \* Nil before the call, then Some(what the call did)

ensureVars == <<ensureInput, ensureOutput>>

(***************************************************************************)
(* State of the SPS30Reader, of its sampling thread and of the callers.    *)
(* The reader reads the clock only to compare it with _warmup_deadline and *)
(* with _last_sample_time, so the two are kept relative to the clock: the  *)
(* time left until the deadline and the age of the last sample, in ticks   *)
(* of 5 seconds.                                                           *)
(***************************************************************************)
VARIABLES
    driver,        \* which driver classes the imports found: "none", "legacy", "modern"
    detected,      \* what detect_serial_ports() yields, filtered to COM ports
    opened,        \* the serial ports the operating system holds open for the reader
    uart_port,     \* self.uart_port: None (auto-scan) or a port name
    stop_event,    \* self._stop_event
    paused,        \* self._paused
    thread,        \* self._thread: None or "alive"
    device,        \* self._device: None, or the port name its device object is bound to
    conn,          \* self._conn: None or "conn"
    port,          \* self._port: None, or the port name of the handle
    consecutive_read_failures,
    last_sample_time,     \* Nil, or Some(age in ticks), saturating at ConnectedTicks
    measurement_started,
    warmup_deadline,      \* ticks left until the deadline; 0: passed, or never set
    pc,            \* where the sampling thread is in _run
    backoff_s,     \* _run's backoff_s, in 1/64 s
    ports_to_try,  \* _connect's ports_to_try
    idx,           \* _connect's position in ports_to_try
    local_port,    \* _connect's local variable port: None (unbound) or a port name
    sample,        \* _run's sample: Nil or Some(Sample)
    ctl,           \* where the calling thread is in set_port or resume: "idle" outside them
    ctlArg,        \* the set_port call in progress: its port_name, and what uart_port and _port were at the call
    connLog,       \* history: the candidates the current _connect call has tried
    sleepFor,      \* history: the duration of the backoff sleep in progress
    prevSleep,     \* history: the previous backoff sleep since the last successful connect
    pendingCrossing, \* history: threshold crossings minus _disconnect calls made for them
    setPortDone,   \* history: Some(X) once set_port(X) has returned, until the next set_port
    beganAfter,    \* history: setPortDone as it was when the current _connect began
    setPortCalls,  \* history: how many calls of set_port have been made
    startedHere,   \* history: a start command has succeeded on the device handle now open
    overrun,       \* history: steps of 50 ms the sleep in progress has lasted since the stop signal
    ctlRaised,     \* history: a call of start, pause, resume, stop or set_port raised to its caller
    extraLoops,    \* sampling threads alive besides the one whose position is pc
    stopPc,        \* where each thread that calls stop() is in it: "idle" outside
    stopAfter,     \* history: how many calls of stop had returned when each was called
    stopCalls,     \* history: how many calls of stop have been made
    stopReturns,   \* history: how many of them have returned
    joinTimedOut,  \* history: the join of a stop() has timed out
    tick           \* history: Nil between loop iterations, else what the iteration's
                   \* _read_measurement met (no device, the warm-up window, or the
                   \* driver's response) and whether the sample callback raised

envVars == <<driver, detected>>
fieldVars == <<uart_port, stop_event, paused, thread, device, conn, port,
               consecutive_read_failures, last_sample_time,
               measurement_started, warmup_deadline>>
loopVars == <<pc, backoff_s, ports_to_try, idx, local_port, sample>>
ctlVars == <<ctl, ctlArg>>
histOther == <<connLog, sleepFor, prevSleep, pendingCrossing, setPortDone,
               beganAfter, setPortCalls>>
stopOther == <<ctlRaised, extraLoops, stopPc, stopAfter, stopCalls,
               stopReturns, joinTimedOut>>
stopHist == <<overrun, stopOther>>
histVars == <<histOther, tick, startedHere, stopHist>>
readerVars == <<envVars, opened, fieldVars, loopVars, ctlVars, histVars>>

vars == <<storeVars, readVars, ensureVars, readerVars>>
notStoreVars == <<readVars, ensureVars, readerVars>>
notReadVars == <<storeVars, ensureVars, readerVars>>
notReaderVars == <<storeVars, readVars, ensureVars>>
notEnsureVars == <<storeVars, readVars, readerVars>>

(***************************************************************************)
(* DataStore (src lines 573-593).  A Sample is represented in the store by *)
(* its timestamp ts, the only field DataStore reads.  The wall clock       *)
(* datetime.now() is the variable clock; one unit is one week, so that     *)
(* timedelta(days=7) is 1.                                                 *)
(***************************************************************************)
\* timedelta(days=7) of DataStore.add, in weeks
RetentionWeeks == 1
\* The clock runs over 0..MaxTime: more than RetentionWeeks, so that samples age out.
MaxTime == 3
\* add() is offered while the deque holds fewer than MaxSamples samples.
MaxSamples == 3

Times == 0..MaxTime
Durations == 0..MaxTime

RECURSIVE TrimOnce(_, _)
\* mutant of Trim: "if" in place of "while" (a single popleft)
TrimOnce(s, cutoff) ==
    IF s # <<>> /\ Head(s) < cutoff THEN Tail(s) ELSE s

RECURSIVE Trim(_, _)
\* while self.samples and self.samples[0].ts < cutoff: self.samples.popleft()
Trim(s, cutoff) ==
    IF s # <<>> /\ Head(s) < cutoff THEN Trim(Tail(s), cutoff) ELSE s

\* mutant of DequeAppend: appendleft
DequeAppendLeft(s, x) == <<x>> \o s

\* self.samples.append(sample)
DequeAppend(s, x) == Append(s, x)

RECURSIVE FilterGt(_, _)
\* mutant of FilterGe: s.ts > cutoff
FilterGt(s, cutoff) ==
    IF s = <<>> THEN <<>>
    ELSE IF Head(s) > cutoff THEN <<Head(s)>> \o FilterGt(Tail(s), cutoff)
         ELSE FilterGt(Tail(s), cutoff)

RECURSIVE FilterGe(_, _)
\* [s for s in self.samples if s.ts >= cutoff]
FilterGe(s, cutoff) ==
    IF s = <<>> THEN <<>>
    ELSE IF Head(s) >= cutoff THEN <<Head(s)>> \o FilterGe(Tail(s), cutoff)
         ELSE FilterGe(Tail(s), cutoff)

\* DataStore.get_window(window_td) on deque s, with now the clock value it read
get_window(s, window_td, now) ==
    IF window_td = Nil THEN s ELSE FilterGe(s, now - Val(window_td))

\* DataStore.__init__
InitStore ==
    /\ samples = <<>>
    /\ clock = 0
    /\ window = <<>>
    /\ windowArg = Nil
    /\ windowNow = Nil
    /\ lastAddTime = Nil
    /\ lastAddedTs = Nil
    /\ addsInOrder = TRUE
    /\ lock = None
    /\ addPc = "idle"
    /\ addArg = 0
    /\ addCutoff = 0
    /\ getPc = "idle"
    /\ getArg = Nil
    /\ getNow = 0
    /\ addBefore = <<>>
    /\ addAfter = Some(<<>>)
    /\ readTag = "old"
    /\ readDuring = FALSE

\* DataStore.add(sample): append, then trim from the front, all under the lock
add(ts) ==
    /\ Len(samples) < MaxSamples
    /\ samples' = Trim(DequeAppend(samples, ts), clock - RetentionWeeks)
    /\ lastAddTime' = Some(clock)
    /\ lastAddedTs' = Some(ts)
    /\ addsInOrder' = (addsInOrder /\ (lastAddedTs = Nil \/ ts >= Val(lastAddedTs)))
    /\ UNCHANGED <<clock, window, windowArg, windowNow, lockVars>>
    /\ UNCHANGED notStoreVars

\* DataStore.get_window(window_td): the returned list is a new list
GetWindow(window_td) ==
    /\ window' = get_window(samples, window_td, clock)
    /\ windowArg' = window_td
    /\ windowNow' = Some(clock)
    /\ UNCHANGED <<samples, clock, lastAddTime, lastAddedTs, addsInOrder,
                   lockVars>>
    /\ UNCHANGED notStoreVars

\* the wall clock advances
StoreTick ==
    /\ clock < MaxTime
    /\ clock' = clock + 1
    /\ UNCHANGED <<samples, window, windowArg, windowNow,
                   lastAddTime, lastAddedTs, addsInOrder, lockVars>>
    /\ UNCHANGED notStoreVars

(***************************************************************************)
(* DataStore.add and DataStore.get_window statement by statement, each on  *)
(* a thread of its own, with DataStore.lock (src lines 579-593).           *)
(***************************************************************************)
\* the window_td values the concurrent get_window calls are given
LockWindows == {Nil, Some(RetentionWeeks)}

\* mutant of LockFree: the with-statement does not wait
LockIgnored(l) == TRUE

\* with self.lock: the block is entered only when no one holds the lock
LockFree(l) == l = None

storeHist == <<lastAddTime, lastAddedTs, addsInOrder>>

\* add(sample) is called
AddCall(ts) ==
    /\ addPc = "idle"
    /\ Len(samples) < MaxSamples
    /\ addArg' = ts
    /\ addBefore' = samples
    /\ addAfter' = Nil
    /\ readTag' = "old"
    /\ readDuring' = FALSE
    /\ addPc' = "acquire"
    /\ UNCHANGED <<samples, clock, window, windowArg, windowNow, storeHist,
                   lock, addCutoff, getPc, getArg, getNow>>
    /\ UNCHANGED notStoreVars

\* with self.lock (add)
AddAcquire ==
    /\ addPc = "acquire"
    /\ LockFree(lock)
    /\ lock' = "add"
    /\ addPc' = "append"
    /\ UNCHANGED <<samples, clock, window, windowArg, windowNow, storeHist,
                   addArg, addCutoff, getPc, getArg, getNow, addBefore,
                   addAfter, readTag, readDuring>>
    /\ UNCHANGED notStoreVars

\* self.samples.append(sample)
AddAppend ==
    /\ addPc = "append"
    /\ samples' = DequeAppend(samples, addArg)
    /\ addPc' = "cutoff"
    /\ UNCHANGED <<clock, window, windowArg, windowNow, storeHist, lock,
                   addArg, addCutoff, getPc, getArg, getNow, addBefore,
                   addAfter, readTag, readDuring>>
    /\ UNCHANGED notStoreVars

\* cutoff = datetime.now() - timedelta(days=7)
AddCutoff ==
    /\ addPc = "cutoff"
    /\ addCutoff' = clock - RetentionWeeks
    /\ addPc' = "trim"
    /\ UNCHANGED <<samples, clock, window, windowArg, windowNow, storeHist,
                   lock, addArg, getPc, getArg, getNow, addBefore, addAfter,
                   readTag, readDuring>>
    /\ UNCHANGED notStoreVars

\* while self.samples and self.samples[0].ts < cutoff: self.samples.popleft()
\* (one test of the condition, and one popleft when it holds)
AddTrim ==
    /\ addPc = "trim"
    /\ IF samples # <<>> /\ Head(samples) < addCutoff
       THEN /\ samples' = Tail(samples)
            /\ addPc' = "trim"
       ELSE /\ samples' = samples
            /\ addPc' = "release"
    /\ UNCHANGED <<clock, window, windowArg, windowNow, storeHist, lock,
                   addArg, addCutoff, getPc, getArg, getNow, addBefore,
                   addAfter, readTag, readDuring>>
    /\ UNCHANGED notStoreVars

\* the with-block of add ends: the lock is released and add returns
AddRelease ==
    /\ addPc = "release"
    /\ lock' = IF lock = "add" THEN None ELSE lock
    /\ addAfter' = Some(samples)
    /\ addPc' = "idle"
    /\ UNCHANGED <<samples, clock, window, windowArg, windowNow, storeHist,
                   addArg, addCutoff, getPc, getArg, getNow, addBefore,
                   readTag, readDuring>>
    /\ UNCHANGED notStoreVars

\* get_window(window_td) is called: now = datetime.now()
GetCall(window_td) ==
    /\ getPc = "idle"
    /\ getArg' = window_td
    /\ getNow' = clock
    /\ getPc' = "acquire"
    /\ UNCHANGED <<samples, clock, window, windowArg, windowNow, storeHist,
                   lock, addPc, addArg, addCutoff, addBefore, addAfter,
                   readTag, readDuring>>
    /\ UNCHANGED notStoreVars

\* with self.lock (get_window)
GetAcquire ==
    /\ getPc = "acquire"
    /\ LockFree(lock)
    /\ lock' = "get"
    /\ getPc' = "read"
    /\ UNCHANGED <<samples, clock, window, windowArg, windowNow, storeHist,
                   addPc, addArg, addCutoff, getArg, getNow, addBefore,
                   addAfter, readTag, readDuring>>
    /\ UNCHANGED notStoreVars

\* return list(self.samples), or the list comprehension: a new list is built
\* from the deque as it is now
GetRead ==
    /\ getPc = "read"
    /\ window' = get_window(samples, getArg, getNow)
    /\ windowArg' = getArg
    /\ windowNow' = Some(getNow)
    /\ readTag' = "cur"
    /\ readDuring' = (addPc # "idle")
    /\ getPc' = "release"
    /\ UNCHANGED <<samples, clock, storeHist, lock, addPc, addArg, addCutoff,
                   getArg, getNow, addBefore, addAfter>>
    /\ UNCHANGED notStoreVars

\* the with-block of get_window ends: the lock is released, the list returned
GetRelease ==
    /\ getPc = "release"
    /\ lock' = IF lock = "get" THEN None ELSE lock
    /\ getPc' = "idle"
    /\ UNCHANGED <<samples, clock, window, windowArg, windowNow, storeHist,
                   addPc, addArg, addCutoff, getArg, getNow, addBefore,
                   addAfter, readTag, readDuring>>
    /\ UNCHANGED notStoreVars

(***************************************************************************)
(* SPS30Reader._read_measurement: the normalisation of a driver response   *)
(* into a Sample (src lines 375-492).                                      *)
(*                                                                         *)
(* A Python value a driver may return is a record [k, n, items]:           *)
(*   k = "num"    a number n (an int or a float with an integral value)    *)
(*   k = "nan"    float('nan')                                             *)
(*   k = "bad"    a value float() raises on (None, 'abc', ...)             *)
(*   k = "absent" a missing attribute or key                               *)
(*   k = "seq"    a list or tuple of the values items                      *)
(*   k = "obj"    an object whose attributes pm1p0, pm2p5, pm4p0, pm10p0   *)
(*                are items[1..4] ("absent" where it has none)             *)
(*   k = "dict"   a dict whose keys 'pm1p0', ... map to items[1..4]        *)
(*   k = "other"  anything else (an int, None, ...)                        *)
(*   k = "raise"  the driver call raised instead of returning              *)
(* A float of a Sample is [nan, x]: NaN, or x units of 1/FixedDivisor (so  *)
(* that the division by 100000.0 of the modern path is exact).             *)
(***************************************************************************)
\* mc_1p0 /= 100000.0 ... of the modern path
FixedDivisor == 100000
\* if max_val > 1000.0
RescaleAbove == 1000

Num(n) == [k |-> "num", n |-> n, items |-> <<>>]
NaNValue == [k |-> "nan", n |-> 0, items |-> <<>>]
Bad == [k |-> "bad", n |-> 0, items |-> <<>>]
Absent == [k |-> "absent", n |-> 0, items |-> <<>>]
PySeq(xs) == [k |-> "seq", n |-> 0, items |-> xs]
PyObj(xs) == [k |-> "obj", n |-> 0, items |-> xs]
PyDict(xs) == [k |-> "dict", n |-> 0, items |-> xs]
PyOther == [k |-> "other", n |-> 0, items |-> <<>>]
Raises == [k |-> "raise", n |-> 0, items |-> <<>>]

F(x) == [nan |-> FALSE, x |-> x]
FNaN == [nan |-> TRUE, x |-> 0]

\* Sample(ts=datetime.now(), pm1=..., pm25=..., pm4=..., pm10=...); ts is not modelled
Sample(a, b, c, d) == [pm1 |-> a, pm25 |-> b, pm4 |-> c, pm10 |-> d]

\* float(x) raises
FloatRaises(v) == v.k \notin {"num", "nan"}

\* float(x), where it does not raise
Float(v) == IF v.k = "num" THEN F(v.n * FixedDivisor) ELSE FNaN

\* _to_float(x): float(x), or NaN when float() raises
to_float(v) == IF FloatRaises(v) THEN FNaN ELSE Float(v)

\* getattr(m, name, float('nan')) and m.get(key, float('nan')), for the i-th name
GetOrNaN(m, i) == IF m.items[i].k = "absent" THEN NaNValue ELSE m.items[i]

IsSeq(v) == v.k = "seq"

\* mutant of LegacyParse: the four values are read from positions 1, 0, 2, 3
LegacyParseSwapped(m) ==
    IF IsSeq(m) /\ Len(m.items) >= 4
    THEN Sample(to_float(m.items[2]), to_float(m.items[1]),
                to_float(m.items[3]), to_float(m.items[4]))
    ELSE Sample(FNaN, FNaN, FNaN, FNaN)

\* the legacy path's extraction of pm1, pm25, pm4, pm10 from the response m:
\* attributes, then dict, then a flat sequence, then a nested one; NaN otherwise
LegacyParse(m) ==
    IF m.k = "obj" /\ (m.items[1].k # "absent" \/ m.items[2].k # "absent")
    THEN Sample(to_float(GetOrNaN(m, 1)), to_float(GetOrNaN(m, 2)),
                to_float(GetOrNaN(m, 3)), to_float(GetOrNaN(m, 4)))
    ELSE IF m.k = "dict"
    THEN Sample(to_float(GetOrNaN(m, 1)), to_float(GetOrNaN(m, 2)),
                to_float(GetOrNaN(m, 3)), to_float(GetOrNaN(m, 4)))
    ELSE IF IsSeq(m) /\ Len(m.items) >= 4
              /\ ~(Len(m.items) = 3 /\ IsSeq(m.items[1]))
    THEN Sample(to_float(m.items[1]), to_float(m.items[2]),
                to_float(m.items[3]), to_float(m.items[4]))
    ELSE IF IsSeq(m) /\ Len(m.items) >= 1 /\ IsSeq(m.items[1])
              /\ Len(m.items[1].items) >= 4
    THEN Sample(to_float(m.items[1].items[1]), to_float(m.items[1].items[2]),
                to_float(m.items[1].items[3]), to_float(m.items[1].items[4]))
    ELSE Sample(FNaN, FNaN, FNaN, FNaN)

\* the legacy path: None when the read raises, else a Sample in every case
LegacyRead(m) == IF m.k = "raise" THEN Nil ELSE Some(LegacyParse(m))

\* Python's a > b on floats: False when either is NaN
PyGt(a, b) == ~a.nan /\ ~b.nan /\ a.x > b.x

\* Python's max(a, b, c, d): the first argument, replaced by each later one that is > it
PyMax4(a, b, c, d) ==
    LET m2 == IF PyGt(b, a) THEN b ELSE a
        m3 == IF PyGt(c, m2) THEN c ELSE m2
    IN IF PyGt(d, m3) THEN d ELSE m3

\* x /= 100000.0
Rescale(f) == IF f.nan THEN FNaN ELSE F(f.x \div FixedDivisor)

\* the modern path's heuristic: all four divided by 100000 when the largest is > 1000
ModernScale(a, b, c, d) ==
    IF PyGt(PyMax4(a, b, c, d), F(RescaleAbove * FixedDivisor))
    THEN Sample(Rescale(a), Rescale(b), Rescale(c), Rescale(d))
    ELSE Sample(a, b, c, d)

\* the modern path: values[0..3] through float(); any exception gives None
ModernRead(m) ==
    IF m.k = "raise" THEN Nil
    ELSE IF ~IsSeq(m) \/ Len(m.items) < 4 THEN Nil
    ELSE IF \E i \in 1..4 : FloatRaises(m.items[i]) THEN Nil
    ELSE Some(ModernScale(Float(m.items[1]), Float(m.items[2]),
                          Float(m.items[3]), Float(m.items[4])))

\* _read_measurement past the warm-up check, for a device of the given kind
read_measurement(kind, m) ==
    IF kind = "legacy" THEN LegacyRead(m)
    ELSE IF kind = "modern" THEN ModernRead(m)
    ELSE Nil

\* the field values a response is built from in the bounded check
FieldValues == {Num(1), Num(2), Num(2000), NaNValue, Bad}
Quads(S) == {<<a, b, c, d>> : a \in S, b \in S, c \in S, d \in S}
FlatResponses == {PySeq(q) : q \in Quads(FieldValues)}
NestedResponses ==
    {PySeq(<<PySeq(q), PySeq(<<Num(1)>>), Num(2)>>) : q \in Quads(FieldValues)}
ObjResponses ==
    {PyObj(q) : q \in Quads({Num(1), Num(2), Bad, Absent})}
DictResponses ==
    {PyDict(q) : q \in Quads({Num(1), Num(2), Bad, Absent})}
OddResponses ==
    { PyOther, Raises, PySeq(<<>>), PySeq(<<Num(1), Num(2), Num(1)>>),
      PySeq(<<Num(1), Num(2), Num(1), Num(2), Num(2000)>>),
      PySeq(<<PySeq(<<Num(1), Num(2), Num(1)>>), PySeq(<<>>), Num(2)>>),
      PySeq(<<PySeq(<<Num(1), Num(2), Num(1), Num(2)>>), PySeq(<<>>), Num(1), Num(2)>>) }
Responses ==
    FlatResponses \cup NestedResponses \cup ObjResponses \cup DictResponses
        \cup OddResponses
ReadKinds == {"legacy", "modern"}

InitRead ==
    /\ readKind \in ReadKinds
    /\ readInput \in Responses
    /\ readDone = FALSE
    /\ readOutput = Nil

\* one call of _read_measurement on the response readInput
ReadMeasurement ==
    /\ ~readDone
    /\ readDone' = TRUE
    /\ readOutput' = read_measurement(readKind, readInput)
    /\ UNCHANGED <<readKind, readInput>>
    /\ UNCHANGED notReadVars

(***************************************************************************)
(* SPS30Reader (src lines 177-545): the sampling thread _run with          *)
(* _connect, _ensure_started, _read_measurement and _disconnect, and the   *)
(* calls pause, resume, set_port and is_connected made from other threads. *)
(* A step of the sampling thread is one access to state that another       *)
(* thread may touch; time.sleep is a position the thread leaves by a step  *)
(* of its own.                                                             *)
(***************************************************************************)
\* self._max_consecutive_failures = 50
MaxConsecutiveFailures == 50
\* backoff_s = 1.0, in 1/64 s
InitialBackoff == 64
\* min(10.0, ...), in 1/64 s
MaxBackoff == 640
\* self._warmup_deadline = time.time() + 5.0, in ticks of 5 s
WarmupTicks == 1
\* timedelta(seconds=20) of is_connected, in ticks of 5 s
ConnectedTicks == 4

\* the steps of 50 ms (the shortest sleep of _run) in one second
StepsPerSecond == 20
\* time.sleep(0.2) of the warm-up window, in steps of 50 ms
WarmupSleepSteps == 4
\* time.sleep(0.2) of the paused poll
PausedSleepSteps == 4
\* time.sleep(0.5) after a failed read
RetrySleepSteps == 10
\* time.sleep(1.0) after the threshold disconnect
ThresholdSleepSteps == 20
\* time.sleep(0.05) of the wait for the rest of the sample period
PollSleepSteps == 1
\* the steps a sleep is followed for after the stop signal
MaxOverrun == 2
\* how many calls of stop are followed
MaxStopCalls == 2
\* the threads that call stop
StopCallers == {1, 2}
\* how many sampling threads beside the first are counted
MaxExtraLoops == 1

\* the serial ports of the machine, in the order of their numbers
AllPorts == <<"COM3", "COM4", "COM5", "COM6">>
Ports == {AllPorts[i] : i \in 1..Len(AllPorts)}
\* [f'COM{i}' for i in range(3, 41)], cut to the ports of the machine
FallbackPorts == AllPorts

Min(a, b) == IF a <= b THEN a ELSE b

\* mutant of PortsToTry: the target port is ignored and the ports are scanned
PortsToTryScanOnly(target, det) == IF det # <<>> THEN det ELSE FallbackPorts

\* _connect's candidate list: [self.uart_port] if it is set, else the
\* detected ports, else the static range
PortsToTry(target, det) ==
    IF target # None THEN <<target>>
    ELSE IF det # <<>> THEN det ELSE FallbackPorts

\* mutant of NextBackoff: the factor is 2
NextBackoffDouble(b) == Min(MaxBackoff, b * 2)

\* backoff_s = min(10.0, backoff_s * 1.5)
NextBackoff(b) == Min(MaxBackoff, (b * 3) \div 2)

\* mutant of ThresholdReached: > in place of >=
ThresholdReachedGt(n) == n > MaxConsecutiveFailures

\* self._consecutive_read_failures >= self._max_consecutive_failures
ThresholdReached(n) == n >= MaxConsecutiveFailures

\* mutant of AfterClose: the failed candidate's handle is left open
AfterCloseLeak(open, handle) == open

\* port.close(): the handle, if there is one, is released
AfterClose(open, handle) == open \ {handle}

\* mutant of is_connected: <= in place of <
is_connected_le(dev, lst) ==
    dev # None /\ lst # Nil /\ Val(lst) <= ConnectedTicks

\* is_connected(): a device handle exists and the last sample is younger than 20 s
is_connected(dev, lst) ==
    IF dev = None \/ lst = Nil THEN FALSE ELSE Val(lst) < ConnectedTicks

\* mutant of InWarmup: the deadline is never looked at
InWarmupNever(w) == FALSE

\* self._warmup_deadline and time.time() < self._warmup_deadline
InWarmup(w) == w > 0

\* _ensure_started goes on to issue a start command
WillStart == device # None /\ ~measurement_started

\* the responses the driver gives to the reads of the sampling thread
LoopResponses == {Raises, PyOther, PySeq(<<Num(1), Num(2), Num(1), Num(2000)>>)}

\* what the imports of the driver packages can find
Drivers == {"none", "legacy", "modern"}
\* what detect_serial_ports() can yield: nothing, or two ports in its order
Detections == {<<>>, <<"COM5", "COM3">>}
\* the uart_port the reader is constructed with: None is auto-scan
Targets == {None, "COM4"}

\* SPS30Reader.__init__
InitReader ==
    /\ opened = {}
    /\ stop_event = FALSE
    /\ paused = FALSE
    /\ thread = None
    /\ device = None
    /\ conn = None
    /\ port = None
    /\ consecutive_read_failures = 0
    /\ last_sample_time = Nil
    /\ measurement_started = FALSE
    /\ warmup_deadline = 0
    /\ pc = "none"
    /\ backoff_s = InitialBackoff
    /\ ports_to_try = <<>>
    /\ idx = 0
    /\ local_port = None
    /\ sample = Nil
    /\ ctl = "idle"
    /\ ctlArg = None
    /\ connLog = <<>>
    /\ sleepFor = Nil
    /\ prevSleep = Nil
    /\ pendingCrossing = 0
    /\ setPortDone = Nil
    /\ beganAfter = Nil
    /\ setPortCalls = 0
    /\ tick = Nil
    /\ startedHere = FALSE
    /\ overrun = 0
    /\ ctlRaised = FALSE
    /\ extraLoops = 0
    /\ stopPc = [c \in StopCallers |-> "idle"]
    /\ stopAfter = [c \in StopCallers |-> 0]
    /\ stopCalls = 0
    /\ stopReturns = 0
    /\ joinTimedOut = FALSE
    /\ driver \in Drivers
    /\ detected \in Detections
    /\ uart_port \in Targets

\* the sampling thread whose position is pc has not begun or has ended
LoopEnded == pc \in {"none", "done"}

\* start(), called first: nothing if self._thread is set; else the stop
\* signal is cleared and the sampling thread is created and enters _run
Start ==
    /\ ctl = "idle"
    /\ stopCalls = 0
    /\ thread = None
    /\ stop_event' = FALSE
    /\ thread' = "alive"
    /\ pc' = "top"
    /\ backoff_s' = InitialBackoff
    /\ UNCHANGED <<envVars, opened, uart_port, paused, device, conn, port,
                   consecutive_read_failures, last_sample_time,
                   measurement_started, warmup_deadline,
                   ports_to_try, idx, local_port, sample, ctlVars, histVars>>
    /\ UNCHANGED notReaderVars

\* start(), called after a stop().  When the thread that a timed-out stop()
\* left behind is still running, the new thread runs beside it: it is
\* counted in extraLoops and its steps are not followed.  A start() after the
\* last stop() that is followed is not followed either.
Restart ==
    /\ ctl = "idle"
    /\ \A c \in StopCallers : stopPc[c] = "idle"
    /\ stopCalls > 0
    /\ stopCalls < MaxStopCalls
    /\ thread = None
    /\ stop_event' = FALSE
    /\ thread' = "alive"
    /\ IF LoopEnded
       THEN /\ pc' = "top"
            /\ backoff_s' = InitialBackoff
            /\ UNCHANGED extraLoops
       ELSE /\ extraLoops < MaxExtraLoops
            /\ extraLoops' = extraLoops + 1
            /\ UNCHANGED <<pc, backoff_s>>
    /\ UNCHANGED <<envVars, opened, uart_port, paused, device, conn, port,
                   consecutive_read_failures, last_sample_time,
                   measurement_started, warmup_deadline,
                   ports_to_try, idx, local_port, sample, ctlVars, histOther,
                   tick, startedHere, overrun, ctlRaised, stopPc, stopAfter,
                   stopCalls, stopReturns, joinTimedOut>>
    /\ UNCHANGED notReaderVars

\* mutant of LoopGoesOn: while True
LoopGoesOnRegardless(stopped) == TRUE

\* the loop condition of _run: not self._stop_event.is_set()
LoopGoesOn(stopped) == ~stopped

\* while not self._stop_event.is_set(): if self._device is None: ...
LoopTop ==
    /\ pc = "top"
    /\ pc' = IF ~LoopGoesOn(stop_event) THEN "done"
             ELSE IF device = None THEN "connect" ELSE "check_paused"
    /\ UNCHANGED <<envVars, opened, fieldVars, backoff_s, ports_to_try, idx,
                   local_port, sample, ctlVars, histVars>>
    /\ UNCHANGED notReaderVars

\* mutant of WithoutDriver: the missing driver is an exception that ends _run
WithoutDriverRaises == "done"

\* if ShdlcSerialPort is None ...: return False -- without a driver _connect
\* fails like any other connect
WithoutDriver == "connect_failed"

\* _connect, up to the for loop: the driver check and the candidate list
ConnectBegin ==
    /\ pc = "connect"
    /\ IF driver = "none"
       THEN /\ pc' = WithoutDriver
            /\ ports_to_try' = <<>>
       ELSE /\ pc' = "c_open"
            /\ ports_to_try' = PortsToTry(uart_port, detected)
    /\ idx' = 1
    /\ local_port' = None
    /\ connLog' = <<>>
    /\ beganAfter' = setPortDone
    /\ UNCHANGED <<envVars, opened, fieldVars, backoff_s, sample, ctlVars,
                   sleepFor, prevSleep, pendingCrossing, setPortDone,
                   setPortCalls, tick,
                   startedHere, stopHist>>
    /\ UNCHANGED notReaderVars

\* for port_name in ports_to_try: port = ShdlcSerialPort(port_name, ...);
\* the open succeeds only on a port that is not held open, and may fail
ConnectOpen ==
    /\ pc = "c_open"
    /\ idx <= Len(ports_to_try)
    /\ \E success \in BOOLEAN :
        LET p == ports_to_try[idx] IN
        /\ success => p \notin opened
        /\ IF success
           THEN /\ opened' = opened \cup {p}
                /\ local_port' = p
                /\ pc' = "c_dev"
           ELSE /\ UNCHANGED <<opened, local_port>>
                /\ pc' = "c_except"
        /\ connLog' = Append(connLog, [port |-> p, opened |-> success,
                                       closed |-> FALSE, ok |-> FALSE])
    /\ UNCHANGED <<envVars, fieldVars, backoff_s, ports_to_try, idx, sample,
                   ctlVars, sleepFor, prevSleep, pendingCrossing, setPortDone,
                   beganAfter,
                   setPortCalls, tick,
                   startedHere, stopHist>>
    /\ UNCHANGED notReaderVars

\* the for loop is exhausted: return False
ConnectExhausted ==
    /\ pc = "c_open"
    /\ idx > Len(ports_to_try)
    /\ pc' = "connect_failed"
    /\ UNCHANGED <<envVars, opened, fieldVars, backoff_s, ports_to_try, idx,
                   local_port, sample, ctlVars, histVars>>
    /\ UNCHANGED notReaderVars

\* channel / connection and device are constructed (which may raise);
\* self._device = dev
ConnectDevice ==
    /\ pc = "c_dev"
    /\ \E success \in BOOLEAN :
        IF success
        THEN /\ device' = local_port
             /\ startedHere' = FALSE
             /\ pc' = "c_setport"
        ELSE /\ UNCHANGED <<device, startedHere, stopHist>>
             /\ pc' = "c_except"
    /\ UNCHANGED <<envVars, opened, uart_port, stop_event, paused, thread,
                   conn, port, consecutive_read_failures, last_sample_time,
                   measurement_started, warmup_deadline, backoff_s,
                   ports_to_try, idx, local_port, sample, ctlVars, histOther,
                   tick, stopHist>>
    /\ UNCHANGED notReaderVars

\* self._port = port
ConnectSetPort ==
    /\ pc = "c_setport"
    /\ port' = local_port
    /\ pc' = "c_setconn"
    /\ UNCHANGED <<envVars, opened, uart_port, stop_event, paused, thread,
                   device, conn, consecutive_read_failures, last_sample_time,
                   measurement_started, warmup_deadline, backoff_s,
                   ports_to_try, idx, local_port, sample, ctlVars, histVars>>
    /\ UNCHANGED notReaderVars

\* self._conn = None (modern driver) or conn (legacy driver)
ConnectSetConn ==
    /\ pc = "c_setconn"
    /\ conn' = IF driver = "legacy" THEN "conn" ELSE None
    /\ pc' = "c_start"
    /\ UNCHANGED <<envVars, opened, uart_port, stop_event, paused, thread,
                   device, port, consecutive_read_failures, last_sample_time,
                   measurement_started, warmup_deadline, backoff_s,
                   ports_to_try, idx, local_port, sample, ctlVars, histVars>>
    /\ UNCHANGED notReaderVars

\* self._ensure_started() of _connect, up to the start command: nothing is
\* sent without a device or when already started; a start command may fail
ConnectStart ==
    /\ pc = "c_start"
    /\ \E started \in BOOLEAN :
        /\ pc' = IF WillStart /\ started THEN "c_started" ELSE "c_warm"
        /\ startedHere' = ((WillStart /\ started) \/ startedHere)
    /\ UNCHANGED <<envVars, opened, fieldVars, backoff_s, ports_to_try, idx,
                   local_port, sample, ctlVars, histOther, tick, stopHist>>
    /\ UNCHANGED notReaderVars

\* self._measurement_started = True
ConnectStarted ==
    /\ pc = "c_started"
    /\ measurement_started' = TRUE
    /\ pc' = "c_warm"
    /\ UNCHANGED <<envVars, opened, uart_port, stop_event, paused, thread,
                   device, conn, port, consecutive_read_failures,
                   last_sample_time, warmup_deadline, backoff_s,
                   ports_to_try, idx, local_port, sample, ctlVars, histVars>>
    /\ UNCHANGED notReaderVars

\* self._warmup_deadline = time.time() + 5.0; return True
ConnectWarm ==
    /\ pc = "c_warm"
    /\ warmup_deadline' = WarmupTicks
    /\ connLog' = [connLog EXCEPT ![Len(connLog)].ok = TRUE]
    /\ pc' = "connect_ok"
    /\ UNCHANGED <<envVars, opened, uart_port, stop_event, paused, thread,
                   device, conn, port, consecutive_read_failures,
                   last_sample_time, measurement_started, backoff_s,
                   ports_to_try, idx, local_port, sample, ctlVars,
                   sleepFor, prevSleep, pendingCrossing, setPortDone,
                   beganAfter,
                   setPortCalls, tick,
                   startedHere, stopHist>>
    /\ UNCHANGED notReaderVars

\* except Exception: port.close(); self._port = None; self._conn = None;
\* self._device = None; and on to the next candidate
ConnectExcept ==
    /\ pc = "c_except"
    /\ opened' = AfterClose(opened, local_port)
    /\ port' = None
    /\ conn' = None
    /\ device' = None
    /\ startedHere' = FALSE
    /\ connLog' = [connLog EXCEPT ![Len(connLog)].closed =
                       (local_port = ports_to_try[idx]
                          /\ local_port \notin AfterClose(opened, local_port))]
    /\ idx' = idx + 1
    /\ pc' = "c_open"
    /\ UNCHANGED <<envVars, uart_port, stop_event, paused, thread,
                   consecutive_read_failures, last_sample_time,
                   measurement_started, warmup_deadline, backoff_s,
                   ports_to_try, local_port, sample, ctlVars,
                   sleepFor, prevSleep, pendingCrossing, setPortDone,
                   beganAfter, setPortCalls, tick, stopHist>>
    /\ UNCHANGED notReaderVars

\* if not ok: time.sleep(min(10.0, backoff_s))
ConnectFailed ==
    /\ pc = "connect_failed"
    /\ sleepFor' = Some(Min(MaxBackoff, backoff_s))
    /\ prevSleep' = sleepFor
    /\ pc' = "sleep_backoff"
    /\ ports_to_try' = <<>>
    /\ idx' = 0
    /\ local_port' = None
    /\ connLog' = <<>>
    /\ UNCHANGED <<envVars, opened, fieldVars, backoff_s, sample, ctlVars,
                   pendingCrossing, setPortDone, beganAfter,
                   setPortCalls, tick,
                   startedHere, stopHist>>
    /\ UNCHANGED notReaderVars

\* the sleep is over: backoff_s = min(10.0, backoff_s * 1.5); continue
BackoffWake ==
    /\ pc = "sleep_backoff"
    /\ backoff_s' = NextBackoff(backoff_s)
    /\ overrun' = 0
    /\ pc' = "top"
    /\ UNCHANGED <<envVars, opened, fieldVars, ports_to_try, idx, local_port,
                   sample, ctlVars, histOther, tick, startedHere, stopOther>>
    /\ UNCHANGED notReaderVars

\* else: backoff_s = 1.0; self._consecutive_read_failures = 0
ConnectSucceeded ==
    /\ pc = "connect_ok"
    /\ backoff_s' = InitialBackoff
    /\ consecutive_read_failures' = 0
    /\ sleepFor' = Nil
    /\ prevSleep' = Nil
    /\ pc' = "check_paused"
    /\ ports_to_try' = <<>>
    /\ idx' = 0
    /\ local_port' = None
    /\ connLog' = <<>>
    /\ UNCHANGED <<envVars, opened, uart_port, stop_event, paused, thread,
                   device, conn, port, last_sample_time, measurement_started,
                   warmup_deadline, sample, ctlVars, pendingCrossing,
                   setPortDone, beganAfter,
                   setPortCalls, tick,
                   startedHere, stopHist>>
    /\ UNCHANGED notReaderVars

\* mutant of AfterPausedCheck: the paused flag is ignored
AfterPausedCheckIgnored(p) == "read"

\* if self._paused.is_set(): time.sleep(0.2); continue -- else on to the read
AfterPausedCheck(p) == IF p THEN "sleep_paused" ELSE "read"

\* if self._paused.is_set(): time.sleep(0.2); continue
CheckPaused ==
    /\ pc = "check_paused"
    /\ pc' = AfterPausedCheck(paused)
    /\ UNCHANGED <<envVars, opened, fieldVars, backoff_s, ports_to_try, idx,
                   local_port, sample, ctlVars, histVars>>
    /\ UNCHANGED notReaderVars

\* sample = self._read_measurement(): None without a device; inside the
\* warm-up window a sleep of 0.2 s and None; else the driver is read and its
\* response normalised
Read ==
    /\ pc = "read"
    /\ IF device = None
       THEN /\ sample' = Nil
            /\ tick' = Some([src |-> "nodevice", m |-> PyOther, raised |-> FALSE])
            /\ pc' = "got"
       ELSE IF InWarmup(warmup_deadline)
       THEN /\ sample' = Nil
            /\ tick' = Some([src |-> "warmup", m |-> PyOther, raised |-> FALSE])
            /\ pc' = "sleep_warmup"
       ELSE /\ \E m \in LoopResponses :
                 /\ sample' = read_measurement(driver, m)
                 /\ tick' = Some([src |-> "driver", m |-> m, raised |-> FALSE])
            /\ pc' = "got"
    /\ UNCHANGED <<envVars, opened, fieldVars, backoff_s, ports_to_try, idx,
                   local_port, ctlVars, histOther,
                   startedHere, stopHist>>
    /\ UNCHANGED notReaderVars

\* the warm-up sleep of _read_measurement is over: return None
WarmupWake ==
    /\ pc = "sleep_warmup"
    /\ overrun' = 0
    /\ pc' = "got"
    /\ UNCHANGED <<envVars, opened, fieldVars, backoff_s, ports_to_try, idx,
                   local_port, sample, ctlVars, histOther, tick, startedHere,
                   stopOther>>
    /\ UNCHANGED notReaderVars

\* if sample is None: self._consecutive_read_failures += 1
Got ==
    /\ pc = "got"
    /\ IF sample = Nil
       THEN /\ consecutive_read_failures' = consecutive_read_failures + 1
            /\ pendingCrossing' =
                 IF consecutive_read_failures + 1 = MaxConsecutiveFailures
                 THEN pendingCrossing + 1 ELSE pendingCrossing
            /\ pc' = "counted"
       ELSE /\ UNCHANGED <<consecutive_read_failures, pendingCrossing>>
            /\ pc' = "deliver"
    /\ UNCHANGED <<envVars, opened, uart_port, stop_event, paused, thread,
                   device, conn, port, last_sample_time, measurement_started,
                   warmup_deadline, backoff_s, ports_to_try, idx, local_port,
                   sample, ctlVars, connLog, sleepFor, prevSleep, setPortDone,
                   beganAfter,
                   setPortCalls, tick,
                   startedHere, stopHist>>
    /\ UNCHANGED notReaderVars

\* the threshold is reached: self._disconnect();
\* self._consecutive_read_failures = 0; self._measurement_started = False;
\* time.sleep(1.0)
ThresholdDisconnect ==
    /\ pc = "counted"
    /\ ThresholdReached(consecutive_read_failures)
    /\ device' = None
    /\ conn' = None
    /\ opened' = AfterClose(opened, port)
    /\ port' = None
    /\ consecutive_read_failures' = 0
    /\ measurement_started' = FALSE
    /\ pendingCrossing' = pendingCrossing - 1
    /\ startedHere' = FALSE
    /\ pc' = "sleep_threshold"
    /\ UNCHANGED <<envVars, uart_port, stop_event, paused, thread,
                   last_sample_time, warmup_deadline, backoff_s,
                   ports_to_try, idx, local_port, sample, ctlVars, connLog,
                   sleepFor, prevSleep, setPortDone, beganAfter,
                   setPortCalls, tick, stopHist>>
    /\ UNCHANGED notReaderVars

\* below the threshold: self._ensure_started(), up to the start command
RetryStart ==
    /\ pc = "counted"
    /\ ~ThresholdReached(consecutive_read_failures)
    /\ \E started \in BOOLEAN :
        /\ pc' = IF WillStart /\ started THEN "retry_started" ELSE "sleep_retry"
        /\ startedHere' = ((WillStart /\ started) \/ startedHere)
    /\ UNCHANGED <<envVars, opened, fieldVars, backoff_s, ports_to_try, idx,
                   local_port, sample, ctlVars, histOther, tick, stopHist>>
    /\ UNCHANGED notReaderVars

\* self._measurement_started = True; time.sleep(0.5)
RetryStarted ==
    /\ pc = "retry_started"
    /\ measurement_started' = TRUE
    /\ pc' = "sleep_retry"
    /\ UNCHANGED <<envVars, opened, uart_port, stop_event, paused, thread,
                   device, conn, port, consecutive_read_failures,
                   last_sample_time, warmup_deadline, backoff_s,
                   ports_to_try, idx, local_port, sample, ctlVars, histVars>>
    /\ UNCHANGED notReaderVars

\* mutant of AfterCallback: an exception of the callback ends the thread
AfterCallbackPropagates(raises) == IF raises THEN "done" ELSE "record"

\* try: self.on_sample_callback(sample) / except Exception: pass -- the loop
\* goes on to the same statement whether the callback raised or not
AfterCallback(raises) == "record"

\* self.on_sample_callback(sample), which returns or raises
Deliver ==
    /\ pc = "deliver"
    /\ \E raises \in BOOLEAN :
        /\ tick' = Some([Val(tick) EXCEPT !.raised = raises])
        /\ pc' = AfterCallback(raises)
    /\ UNCHANGED <<envVars, opened, fieldVars, backoff_s, ports_to_try, idx,
                   local_port, sample, ctlVars, histOther,
                   startedHere, stopHist>>
    /\ UNCHANGED notReaderVars

\* self._consecutive_read_failures = 0; self._last_sample_time = datetime.now()
Record ==
    /\ pc = "record"
    /\ consecutive_read_failures' = 0
    /\ last_sample_time' = Some(0)
    /\ sample' = Nil
    /\ pc' = "idle"
    /\ UNCHANGED <<envVars, opened, uart_port, stop_event, paused, thread,
                   device, conn, port, measurement_started, warmup_deadline,
                   backoff_s, ports_to_try, idx, local_port, ctlVars,
                   connLog, sleepFor, prevSleep, pendingCrossing, setPortDone,
                   beganAfter,
                   setPortCalls, tick,
                   startedHere, stopHist>>
    /\ UNCHANGED notReaderVars

\* a sleep of the loop body is over (the paused poll, the retry pause, the
\* pause after the threshold): continue
Wake ==
    /\ pc \in {"sleep_paused", "sleep_retry", "sleep_threshold"}
    /\ pc' = "top"
    /\ tick' = Nil
    /\ overrun' = 0
    /\ UNCHANGED <<envVars, opened, fieldVars, backoff_s, ports_to_try, idx,
                   local_port, sample, ctlVars, histOther, startedHere,
                   stopOther>>
    /\ UNCHANGED notReaderVars

\* mutant of PollEnds: the wait for the next sample ignores the stop signal
PollEndsUnlessStopped(over, stopped, p) == over \/ p

\* while time.time() < end_time and not self._stop_event.is_set()
\*       and not self._paused.is_set(): the wait ends when this is false
PollEnds(over, stopped, p) == over \/ stopped \/ p

\* the condition of the wait for the rest of the sample period is evaluated:
\* the loop body is over, or another time.sleep(0.05) begins
IdleCheck ==
    /\ pc = "idle"
    /\ \E over \in BOOLEAN :
        IF PollEnds(over, stop_event, paused)
        THEN /\ pc' = "top"
             /\ tick' = Nil
             /\ overrun' = 0
        ELSE /\ pc' = "idle_sleep"
             /\ UNCHANGED <<tick, overrun>>
    /\ UNCHANGED <<envVars, opened, fieldVars, backoff_s, ports_to_try, idx,
                   local_port, sample, ctlVars, histOther, startedHere,
                   stopOther>>
    /\ UNCHANGED notReaderVars

\* time.sleep(0.05) of that wait is over
IdleSleep ==
    /\ pc = "idle_sleep"
    /\ overrun' = IF stop_event THEN Min(MaxOverrun, overrun + PollSleepSteps)
                  ELSE 0
    /\ pc' = "idle"
    /\ UNCHANGED <<envVars, opened, fieldVars, backoff_s, ports_to_try, idx,
                   local_port, sample, ctlVars, histOther, tick, startedHere,
                   stopOther>>
    /\ UNCHANGED notReaderVars

\* the length of the sleep the loop is in, in steps of 50 ms
SleepSteps ==
    IF pc = "sleep_backoff"
    THEN (Min(MaxBackoff, backoff_s) * StepsPerSecond) \div InitialBackoff
    ELSE IF pc = "sleep_warmup" THEN WarmupSleepSteps
    ELSE IF pc = "sleep_paused" THEN PausedSleepSteps
    ELSE IF pc = "sleep_retry" THEN RetrySleepSteps
    ELSE IF pc = "sleep_threshold" THEN ThresholdSleepSteps
    ELSE 0

\* 50 ms pass after the stop signal while the loop is in a time.sleep(d) that
\* has not run for d yet: time.sleep does not look at the stop signal
SleepOn ==
    /\ stop_event
    /\ overrun < SleepSteps
    /\ overrun < MaxOverrun
    /\ overrun' = overrun + 1
    /\ UNCHANGED <<envVars, opened, fieldVars, loopVars, ctlVars, histOther,
                   tick, startedHere, stopOther>>
    /\ UNCHANGED notReaderVars

\* no timer of the model is running: a tick would change nothing
TimeStands ==
    /\ warmup_deadline = 0
    /\ last_sample_time # Nil => Val(last_sample_time) = ConnectedTicks

\* time passes: one tick of 5 s
Tick ==
    /\ ~TimeStands
    /\ warmup_deadline' = IF warmup_deadline > 0 THEN warmup_deadline - 1 ELSE 0
    /\ last_sample_time' =
         IF last_sample_time = Nil THEN Nil
         ELSE Some(Min(ConnectedTicks, Val(last_sample_time) + 1))
    /\ UNCHANGED <<envVars, opened, uart_port, stop_event, paused, thread,
                   device, conn, port, consecutive_read_failures,
                   measurement_started, loopVars, ctlVars, connLog, sleepFor,
                   prevSleep, pendingCrossing, setPortDone, beganAfter,
                   setPortCalls, tick,
                   startedHere, stopHist>>
    /\ UNCHANGED notReaderVars

\* mutant of Propagated: the failure of a driver call leaves the method
PropagatedUncaught(fails) == fails

\* try: <driver call> / except Exception: pass -- in _disconnect and around
\* _ensure_started: the failure of a driver call does not leave the method
Propagated(fails) == FALSE

(***************************************************************************)
(* _ensure_started (src lines 337-365) as a function of what it reads: the *)
(* fields _device and _measurement_started, whether the device object has  *)
(* a start_measurement method, whether the import of OutputFormat          *)
(* succeeded, and whether each of the two start calls raises.  It yields   *)
(* the start commands sent to the device in their order, the value of      *)
(* _measurement_started afterwards and whether an exception left it.       *)
(***************************************************************************)
EnsureInputs ==
    [device : {None, "COM4"}, started : BOOLEAN, hasStart : BOOLEAN,
     format : BOOLEAN, modernFails : BOOLEAN, legacyFails : BOOLEAN]

\* nothing sent, the flag as it was
Untouched(in) == [cmds |-> <<>>, started |-> in.started, raised |-> FALSE]

\* mutant of ensure_started: the flag is set before the start call is made
ensure_started_flag_first(in) ==
    IF in.device = None \/ in.started \/ ~in.hasStart THEN Untouched(in)
    ELSE IF in.format /\ ~in.modernFails
         THEN [cmds |-> <<"modern">>, started |-> TRUE, raised |-> FALSE]
         ELSE [cmds |-> IF in.format THEN <<"modern", "legacy">>
                                     ELSE <<"legacy">>,
               started |-> TRUE,
               raised |-> FALSE]

\* _ensure_started
ensure_started(in) ==
    IF in.device = None THEN Untouched(in)
    ELSE IF in.started THEN Untouched(in)
    ELSE IF ~in.hasStart THEN Untouched(in)
    ELSE IF in.format /\ ~in.modernFails
         THEN [cmds |-> <<"modern">>, started |-> TRUE, raised |-> FALSE]
         ELSE [cmds |-> IF in.format THEN <<"modern", "legacy">>
                                     ELSE <<"legacy">>,
               started |-> ~in.legacyFails,
               raised |-> Propagated(in.legacyFails)]

\* the fields and the driver before a call of _ensure_started
InitEnsure ==
    /\ ensureInput \in EnsureInputs
    /\ ensureOutput = Nil

\* no call of _ensure_started is followed
IdleEnsure ==
    /\ ensureInput = [device |-> None, started |-> FALSE, hasStart |-> TRUE,
                      format |-> TRUE, modernFails |-> FALSE,
                      legacyFails |-> FALSE]
    /\ ensureOutput = Nil

\* one call of _ensure_started
EnsureStarted ==
    /\ ensureOutput = Nil
    /\ ensureOutput' = Some(ensure_started(ensureInput))
    /\ UNCHANGED ensureInput
    /\ UNCHANGED notEnsureVars

(***************************************************************************)
(* set_port (src lines 225-231), called from the thread of the user        *)
(* interface while the sampling thread runs.  A step is one statement of   *)
(* set_port.                                                               *)
(***************************************************************************)
\* how many calls of set_port are followed
MaxSetPortCalls == 1
\* the port_name arguments
SetPortArgs == {"COM3"}

\* set_port(port_name): self.uart_port = port_name
SetPortCall(port_name) ==
    /\ ctl = "idle"
    /\ thread # None
    /\ setPortCalls < MaxSetPortCalls
    /\ uart_port' = port_name
    /\ ctlArg' = [port_name |-> port_name, from |-> uart_port, active |-> port]
    /\ ctl' = "sp_disconnect"
    /\ setPortDone' = Nil
    /\ setPortCalls' = setPortCalls + 1
    /\ UNCHANGED <<envVars, opened, stop_event, paused, thread, device, conn,
                   port, consecutive_read_failures, last_sample_time,
                   measurement_started, warmup_deadline, loopVars, connLog,
                   sleepFor, prevSleep, pendingCrossing, beganAfter, tick,
                   startedHere, stopHist>>
    /\ UNCHANGED notReaderVars

\* self._disconnect(): stop_measurement() if there is a device; the device,
\* the connection and the port are dropped and the port's handle is closed
SetPortDisconnect ==
    /\ ctl = "sp_disconnect"
    /\ device' = None
    /\ conn' = None
    /\ opened' = AfterClose(opened, port)
    /\ port' = None
    /\ startedHere' = FALSE
    /\ \E stopFails, closeFails \in BOOLEAN :
        ctlRaised' = (ctlRaised \/ Propagated(stopFails \/ closeFails))
    /\ ctl' = "sp_last"
    /\ UNCHANGED <<envVars, uart_port, stop_event, paused, thread,
                   consecutive_read_failures, last_sample_time,
                   measurement_started, warmup_deadline, loopVars, ctlArg,
                   histOther, tick, overrun, extraLoops, stopPc, stopAfter,
                   stopCalls, stopReturns, joinTimedOut>>
    /\ UNCHANGED notReaderVars

\* self._last_sample_time = None
SetPortLast ==
    /\ ctl = "sp_last"
    /\ last_sample_time' = Nil
    /\ ctl' = "sp_started"
    /\ UNCHANGED <<envVars, opened, uart_port, stop_event, paused, thread,
                   device, conn, port, consecutive_read_failures,
                   measurement_started, warmup_deadline, loopVars, ctlArg,
                   histVars>>
    /\ UNCHANGED notReaderVars

\* self._measurement_started = False; set_port returns
SetPortReturn ==
    /\ ctl = "sp_started"
    /\ measurement_started' = FALSE
    /\ ctl' = "idle"
    /\ setPortDone' = IF ctlArg.port_name = None THEN Nil ELSE Some(ctlArg)
    /\ UNCHANGED <<envVars, opened, uart_port, stop_event, paused, thread,
                   device, conn, port, consecutive_read_failures,
                   last_sample_time, warmup_deadline, loopVars, ctlArg,
                   connLog, sleepFor, prevSleep, pendingCrossing, beganAfter, setPortCalls, tick,
                   startedHere, stopHist>>
    /\ UNCHANGED notReaderVars

(***************************************************************************)
(* stop (src lines 218-223), called from the thread of the user interface. *)
(***************************************************************************)
\* mutant of JoinReturns: stop() does not wait for the thread
JoinSkipped(ended, timedOut) == TRUE

\* mutant of JoinReturns: join() without a timeout
JoinWaits(ended, timedOut) == ended

\* self._thread.join(timeout=3.0) returns when the thread has ended or when
\* the 3 seconds are over
JoinReturns(ended, timedOut) == ended \/ timedOut

\* stop(), called by thread c: self._stop_event.set()
StopCall(c) ==
    /\ stopPc[c] = "idle"
    /\ stopCalls < MaxStopCalls
    /\ stop_event' = TRUE
    /\ stopCalls' = stopCalls + 1
    /\ stopAfter' = [stopAfter EXCEPT ![c] = stopReturns]
    /\ stopPc' = [stopPc EXCEPT ![c] = "check"]
    /\ UNCHANGED <<envVars, opened, uart_port, paused, thread, device, conn,
                   port, consecutive_read_failures, last_sample_time,
                   measurement_started, warmup_deadline, loopVars, ctlVars,
                   histOther, tick, startedHere, overrun, ctlRaised,
                   extraLoops, stopReturns, joinTimedOut>>
    /\ UNCHANGED notReaderVars

\* if self._thread is not None:
StopCheck(c) ==
    /\ stopPc[c] = "check"
    /\ stopPc' = [stopPc EXCEPT ![c] = IF thread # None THEN "join"
                                        ELSE "disconnect"]
    /\ UNCHANGED <<envVars, opened, fieldVars, loopVars, ctlVars, histOther,
                   tick, startedHere, overrun, ctlRaised, extraLoops,
                   stopAfter, stopCalls, stopReturns, joinTimedOut>>
    /\ UNCHANGED notReaderVars

\* self._thread.join(timeout=3.0): self._thread is read again; on None the
\* attribute join is missing and the AttributeError leaves stop(); else the
\* join returns, and it cannot time out on a thread that has ended
StopJoin(c) ==
    /\ stopPc[c] = "join"
    /\ IF thread = None
       THEN /\ ctlRaised' = TRUE
            /\ stopPc' = [stopPc EXCEPT ![c] = "idle"]
            /\ UNCHANGED joinTimedOut
       ELSE \E timedOut \in BOOLEAN :
               /\ JoinReturns(LoopEnded /\ extraLoops = 0, timedOut)
               /\ timedOut => ~(LoopEnded /\ extraLoops = 0)
               /\ joinTimedOut' = (joinTimedOut \/ timedOut)
               /\ stopPc' = [stopPc EXCEPT ![c] = "clear"]
               /\ UNCHANGED ctlRaised
    /\ UNCHANGED <<envVars, opened, fieldVars, loopVars, ctlVars, histOther,
                   tick, startedHere, overrun, extraLoops, stopAfter,
                   stopCalls, stopReturns>>
    /\ UNCHANGED notReaderVars

\* self._thread = None
StopClear(c) ==
    /\ stopPc[c] = "clear"
    /\ thread' = None
    /\ stopPc' = [stopPc EXCEPT ![c] = "disconnect"]
    /\ UNCHANGED <<envVars, opened, uart_port, stop_event, paused, device,
                   conn, port, consecutive_read_failures, last_sample_time,
                   measurement_started, warmup_deadline, loopVars, ctlVars,
                   histOther, tick, startedHere, overrun, ctlRaised,
                   extraLoops, stopAfter, stopCalls, stopReturns,
                   joinTimedOut>>
    /\ UNCHANGED notReaderVars

\* self._disconnect(); stop returns
StopDisconnect(c) ==
    /\ stopPc[c] = "disconnect"
    /\ device' = None
    /\ conn' = None
    /\ opened' = AfterClose(opened, port)
    /\ port' = None
    /\ startedHere' = FALSE
    /\ \E stopFails, closeFails \in BOOLEAN :
        ctlRaised' = (ctlRaised \/ Propagated(stopFails \/ closeFails))
    /\ stopReturns' = stopReturns + 1
    /\ stopPc' = [stopPc EXCEPT ![c] = "idle"]
    /\ UNCHANGED <<envVars, uart_port, stop_event, paused, thread,
                   consecutive_read_failures, last_sample_time,
                   measurement_started, warmup_deadline, loopVars, ctlVars,
                   histOther, tick, overrun, extraLoops, stopAfter,
                   stopCalls, joinTimedOut>>
    /\ UNCHANGED notReaderVars

\* a sampling thread that is not followed meets the stop signal at its loop
\* condition and ends
ExtraExit ==
    /\ extraLoops > 0
    /\ stop_event
    /\ extraLoops' = extraLoops - 1
    /\ UNCHANGED <<envVars, opened, fieldVars, loopVars, ctlVars, histOther,
                   tick, startedHere, overrun, ctlRaised, stopPc, stopAfter,
                   stopCalls, stopReturns, joinTimedOut>>
    /\ UNCHANGED notReaderVars

(***************************************************************************)
(* pause and resume (src lines 204-213), called from the thread of the     *)
(* user interface while the sampling thread runs.                          *)
(***************************************************************************)
\* pause(): self._paused.set()
Pause ==
    /\ ctl = "idle"
    /\ thread # None
    /\ paused' = TRUE
    /\ UNCHANGED <<envVars, opened, uart_port, stop_event, thread, device,
                   conn, port, consecutive_read_failures, last_sample_time,
                   measurement_started, warmup_deadline, loopVars, ctlVars,
                   histVars>>
    /\ UNCHANGED notReaderVars

\* resume(): self._paused.clear()
Resume ==
    /\ ctl = "idle"
    /\ thread # None
    /\ paused' = FALSE
    /\ ctl' = "rs_start"
    /\ UNCHANGED <<envVars, opened, uart_port, stop_event, thread, device,
                   conn, port, consecutive_read_failures, last_sample_time,
                   measurement_started, warmup_deadline, loopVars, ctlArg,
                   histVars>>
    /\ UNCHANGED notReaderVars

\* resume(): self._ensure_started(), up to the start command: nothing is
\* sent without a device or when already started; a start command may fail
ResumeStart ==
    /\ ctl = "rs_start"
    /\ \E started \in BOOLEAN :
        /\ ctl' = IF WillStart /\ started THEN "rs_started" ELSE "idle"
        /\ startedHere' = ((WillStart /\ started) \/ startedHere)
        /\ ctlRaised' = (ctlRaised \/ Propagated(WillStart /\ ~started))
    /\ UNCHANGED <<envVars, opened, fieldVars, loopVars, ctlArg, histOther,
                   tick, overrun, extraLoops, stopPc, stopAfter, stopCalls,
                   stopReturns, joinTimedOut>>
    /\ UNCHANGED notReaderVars

\* _ensure_started: self._measurement_started = True; resume returns
ResumeStarted ==
    /\ ctl = "rs_started"
    /\ measurement_started' = TRUE
    /\ ctl' = "idle"
    /\ UNCHANGED <<envVars, opened, uart_port, stop_event, paused, thread,
                   device, conn, port, consecutive_read_failures,
                   last_sample_time, warmup_deadline, loopVars, ctlArg,
                   histVars>>
    /\ UNCHANGED notReaderVars

(***************************************************************************)
(* App._run_connection_test (src lines 957-1051), run in a thread of its   *)
(* own, as far as it acts on the reader: it pauses the reader, calls its   *)
(* _disconnect, opens and closes the candidate ports itself, and resumes   *)
(* the reader if it was not paused before.                                 *)
(***************************************************************************)
\* was_paused = self.reader.is_paused(); self.reader.pause()
TestPause ==
    /\ ctl = "idle"
    /\ thread # None
    /\ driver # "none"
    /\ ctlArg' = [was_paused |-> paused]
    /\ paused' = TRUE
    /\ ctl' = "ct_disconnect"
    /\ UNCHANGED <<envVars, opened, uart_port, stop_event, thread, device,
                   conn, port, consecutive_read_failures, last_sample_time,
                   measurement_started, warmup_deadline, loopVars, histVars>>
    /\ UNCHANGED notReaderVars

\* try: self.reader._disconnect() / except Exception: pass
TestDisconnect ==
    /\ ctl = "ct_disconnect"
    /\ device' = None
    /\ conn' = None
    /\ opened' = AfterClose(opened, port)
    /\ port' = None
    /\ startedHere' = FALSE
    /\ ctl' = "ct_testing"
    /\ UNCHANGED <<envVars, uart_port, stop_event, paused, thread,
                   consecutive_read_failures, last_sample_time,
                   measurement_started, warmup_deadline, loopVars, ctlArg,
                   histOther, tick, stopHist>>
    /\ UNCHANGED notReaderVars

\* the test is over; finally: if not was_paused: self.reader.resume(), whose
\* first statement is self._paused.clear()
TestFinish ==
    /\ ctl = "ct_testing"
    /\ IF ctlArg.was_paused
       THEN ctl' = "idle" /\ UNCHANGED paused
       ELSE ctl' = "rs_start" /\ paused' = FALSE
    /\ ctlArg' = None
    /\ UNCHANGED <<envVars, opened, uart_port, stop_event, thread, device,
                   conn, port, consecutive_read_failures, last_sample_time,
                   measurement_started, warmup_deadline, loopVars, histVars>>
    /\ UNCHANGED notReaderVars

\* the calls of _read_measurement taken on their own: none is in progress
IdleRead ==
    /\ readKind = "legacy"
    /\ readInput = PyOther
    /\ readDone = FALSE
    /\ readOutput = Nil

\* a reader that is constructed and never started
IdleReader ==
    /\ InitReader
    /\ driver = "none"
    /\ detected = <<>>
    /\ uart_port = None

InitStoreOnly == InitStore /\ IdleRead /\ IdleEnsure /\ IdleReader

NextStore ==
    \/ \E ts \in Times : add(ts)
    \/ \E d \in Durations : GetWindow(Some(d))
    \/ GetWindow(Nil)
    \/ StoreTick

SpecStore == InitStoreOnly /\ [][NextStore]_vars

InitLock == InitStore /\ IdleRead /\ IdleEnsure /\ IdleReader

NextLock ==
    \/ \E ts \in Times : AddCall(ts)
    \/ AddAcquire
    \/ AddAppend
    \/ AddCutoff
    \/ AddTrim
    \/ AddRelease
    \/ \E w \in LockWindows : GetCall(w)
    \/ GetAcquire
    \/ GetRead
    \/ GetRelease
    \/ StoreTick

SpecLock == InitLock /\ [][NextLock]_vars

InitReadOnly == InitStore /\ InitRead /\ IdleEnsure /\ IdleReader

NextRead == ReadMeasurement

SpecRead == InitReadOnly /\ [][NextRead]_vars

\* _ensure_started on its own
InitEnsureOnly == InitStore /\ IdleRead /\ InitEnsure /\ IdleReader

NextEnsure == EnsureStarted

SpecEnsure == InitEnsureOnly /\ [][NextEnsure]_vars

\* the sampling thread on its own
InitLoop == InitStore /\ IdleRead /\ IdleEnsure /\ InitReader

\* a step of the sampling thread
LoopStep ==
    \/ LoopTop
    \/ ConnectBegin
    \/ ConnectOpen
    \/ ConnectExhausted
    \/ ConnectDevice
    \/ ConnectSetPort
    \/ ConnectSetConn
    \/ ConnectStart
    \/ ConnectStarted
    \/ ConnectWarm
    \/ ConnectExcept
    \/ ConnectFailed
    \/ BackoffWake
    \/ ConnectSucceeded
    \/ CheckPaused
    \/ Read
    \/ WarmupWake
    \/ Got
    \/ ThresholdDisconnect
    \/ RetryStart
    \/ RetryStarted
    \/ Deliver
    \/ Record
    \/ Wake
    \/ IdleCheck
    \/ IdleSleep

NextLoop ==
    \/ Start
    \/ LoopStep
    \/ Tick

SpecLoop == InitLoop /\ [][NextLoop]_vars

\* the sampling thread goes on running: every driver call and every sleep
\* of _run returns
SpecLoopFair == SpecLoop /\ WF_vars(LoopStep)

\* the sampling thread and a thread that calls set_port
InitPort ==
    /\ InitStore
    /\ IdleRead
    /\ IdleEnsure
    /\ InitReader
    /\ driver = "modern"
    /\ detected = <<>>

NextPort ==
    \/ NextLoop
    \/ \E port_name \in SetPortArgs : SetPortCall(port_name)
    \/ SetPortDisconnect
    \/ SetPortLast
    \/ SetPortReturn

Spec == InitPort /\ [][NextPort]_vars

\* the sampling thread and a thread that calls pause and resume
InitPause ==
    /\ InitStore
    /\ IdleRead
    /\ IdleEnsure
    /\ InitReader
    /\ driver = "modern"
    /\ detected = <<>>

NextPause ==
    \/ NextLoop
    \/ Pause
    \/ Resume
    \/ ResumeStart
    \/ ResumeStarted

SpecPause == InitPause /\ [][NextPause]_vars

\* the sampling thread, the pause and resume of the user interface and the
\* connection test, on a machine with the legacy driver the test needs
InitTest ==
    /\ InitStore
    /\ IdleRead
    /\ IdleEnsure
    /\ InitReader
    /\ driver = "legacy"
    /\ detected = <<>>
    /\ uart_port = "COM4"

NextTest ==
    \/ NextLoop
    \/ Pause
    \/ Resume
    \/ ResumeStart
    \/ ResumeStarted
    \/ TestPause
    \/ TestDisconnect
    \/ TestFinish

SpecTest == InitTest /\ [][NextTest]_vars

\* the sampling thread and one thread that calls stop
InitStop ==
    /\ InitStore
    /\ IdleRead
    /\ IdleEnsure
    /\ InitReader
    /\ driver = "modern"
    /\ detected = <<>>
    /\ uart_port = "COM4"

NextStop ==
    \/ NextLoop
    \/ SleepOn
    \/ StopCall(1)
    \/ StopCheck(1)
    \/ StopJoin(1)
    \/ StopClear(1)
    \/ StopDisconnect(1)

SpecStop == InitStop /\ [][NextStop]_vars

\* the thread that called stop() goes on running: join has a timeout and
\* _disconnect waits for nothing
SpecStopFair ==
    /\ SpecStop
    /\ WF_vars(StopCheck(1))
    /\ WF_vars(StopJoin(1))
    /\ WF_vars(StopClear(1))
    /\ WF_vars(StopDisconnect(1))

\* the sampling thread goes on running while stop() is called: every driver
\* call and every sleep of _run returns
SpecStopLoopFair == SpecStop /\ WF_vars(LoopStep)

\* the sampling thread and two threads that call stop
InitStopRace ==
    /\ InitStore
    /\ IdleRead
    /\ IdleEnsure
    /\ InitReader
    /\ driver = "modern"
    /\ detected = <<>>
    /\ uart_port = "COM4"

NextStopRace ==
    \/ NextLoop
    \/ SleepOn
    \/ \E c \in StopCallers : StopCall(c)
    \/ \E c \in StopCallers : StopCheck(c)
    \/ \E c \in StopCallers : StopJoin(c)
    \/ \E c \in StopCallers : StopClear(c)
    \/ \E c \in StopCallers : StopDisconnect(c)

SpecStopRace == InitStopRace /\ [][NextStopRace]_vars

\* the sampling thread and a thread that calls stop, and start again
InitRestart ==
    /\ InitStore
    /\ IdleRead
    /\ IdleEnsure
    /\ InitReader
    /\ driver = "modern"
    /\ detected = <<>>
    /\ uart_port = "COM4"

NextRestart ==
    \/ NextLoop
    \/ StopCall(1)
    \/ StopCheck(1)
    \/ StopJoin(1)
    \/ StopClear(1)
    \/ StopDisconnect(1)
    \/ Restart
    \/ ExtraExit

SpecRestart == InitRestart /\ [][NextRestart]_vars


----------------------------------------------------------------------------
IsSorted(s) == \A i \in 1..Len(s) : \A j \in i..Len(s) : s[i] <= s[j]

\* the number of indices of s holding a value t with t >= cutoff
RECURSIVE CountGe(_, _)
CountGe(s, cutoff) ==
    IF s = <<>> THEN 0
    ELSE (IF Head(s) >= cutoff THEN 1 ELSE 0) + CountGe(Tail(s), cutoff)

\* r is obtained from s by deleting elements (same elements, same order)
RECURSIVE IsSubseq(_, _)
IsSubseq(r, s) ==
    IF r = <<>> THEN TRUE
    ELSE IF s = <<>> THEN FALSE
    ELSE IF Head(r) = Head(s) THEN IsSubseq(Tail(r), Tail(s))
    ELSE IsSubseq(r, Tail(s))

\* C1 as stated: after every sequence of add() calls, whatever the order of
\* the timestamps, get_window(None) is sorted by timestamp ascending.
C1_SortedAnyOrder == IsSorted(get_window(samples, Nil, clock))

\* C1 amended: when the add() calls came with non-decreasing timestamps,
\* get_window(None) is sorted by timestamp ascending.
C1_SortedWhenAddedInOrder ==
    addsInOrder => IsSorted(get_window(samples, Nil, clock))

\* two samples added in increasing order are retained, at a time when a cutoff exists
C1_Witness ==
    /\ addsInOrder
    /\ Len(samples) >= 2
    /\ samples[1] < samples[2]
    /\ lastAddTime # Nil
    /\ Val(lastAddTime) - RetentionWeeks > 0

\* C2 as stated: after every sequence of add() calls no retained sample is
\* more than 7 days older than the time of the last add().
C2_RetentionAnyOrder ==
    lastAddTime # Nil =>
        \A i \in 1..Len(samples) :
            samples[i] >= Val(lastAddTime) - RetentionWeeks

\* C2 amended: when the add() calls came with non-decreasing timestamps, no
\* retained sample (at any position) is more than 7 days older than the time
\* of the last add().
C2_RetentionWhenAddedInOrder ==
    (addsInOrder /\ lastAddTime # Nil) =>
        LET all == get_window(samples, Nil, clock) IN
        \A i \in 1..Len(all) : all[i] >= Val(lastAddTime) - RetentionWeeks

\* two stale samples were in the store and the last add() dropped both
C2_Witness ==
    /\ addsInOrder
    /\ lastAddTime # Nil
    /\ lastAddedTs # Nil
    /\ Val(lastAddedTs) >= Val(lastAddTime) - RetentionWeeks
    /\ samples = <<Val(lastAddedTs)>>
    /\ Len(window) = 2
    /\ windowArg = Nil
    /\ \A i \in 1..2 : window[i] < Val(lastAddTime) - RetentionWeeks

\* C3: get_window(d) read at time now is exactly the subsequence of
\* get_window(None) of the samples with ts >= now - d (same elements, same
\* order), and the result for a narrower window is a subsequence of the
\* result for a wider one.
C3_WindowIsSubsequence ==
    LET all == get_window(samples, Nil, clock) IN
    /\ \A d \in Durations :
         LET r == get_window(samples, Some(d), clock) IN
         /\ IsSubseq(r, all)
         /\ \A i \in 1..Len(r) : r[i] >= clock - d
         /\ Len(r) = CountGe(all, clock - d)
    /\ \A d1 \in Durations : \A d2 \in Durations :
         d1 <= d2 => IsSubseq(get_window(samples, Some(d1), clock),
                              get_window(samples, Some(d2), clock))

\* a window that keeps a sample exactly at the cutoff and drops an older one
C3_Witness ==
    /\ windowArg # Nil
    /\ windowNow = Some(clock)
    /\ Len(samples) = 3
    /\ Len(window) = 2
    /\ \E i \in 1..2 : window[i] = clock - Val(windowArg)
    /\ window = get_window(samples, windowArg, clock)

----------------------------------------------------------------------------
\* C4: in the sampling loop, each time the consecutive-failure counter reaches
\* the threshold 50 with no successful read in between, _disconnect() is
\* invoked exactly once for that crossing and the counter is 0 immediately
\* afterwards, so that the next tick finds no device and attempts a reconnect.
\* The counter never passes 50, it is 50 only between the increment and the
\* threshold test, a crossing is pending exactly there, and the loop's next
\* step from there is the one _disconnect with the reset of the counter.
C4_State ==
    /\ consecutive_read_failures <= MaxConsecutiveFailures
    /\ consecutive_read_failures = MaxConsecutiveFailures => pc = "counted"
    /\ pendingCrossing =
         (IF pc = "counted" /\ consecutive_read_failures = MaxConsecutiveFailures
          THEN 1 ELSE 0)
    /\ pc = "sleep_threshold" =>
         device = None /\ port = None /\ consecutive_read_failures = 0

C4_Step ==
    /\ (pendingCrossing = 1 /\ pc' # pc) =>
         /\ pendingCrossing' = 0
         /\ device' = None
         /\ consecutive_read_failures' = 0
         /\ pc' = "sleep_threshold"
    /\ (pc = "sleep_threshold" /\ pc' # pc) => (pc' = "top" /\ device' = None)
    /\ (pc = "top" /\ device = None /\ ~stop_event /\ pc' # pc) => pc' = "connect"

C4_ThresholdDisconnectsOnce == []C4_State /\ [][C4_Step]_vars

\* the loop has just disconnected for a crossing of the threshold
C4_Witness ==
    /\ pc = "sleep_threshold"
    /\ device = None
    /\ consecutive_read_failures = 0
    /\ pendingCrossing = 0
    /\ last_sample_time # Nil

\* C5: the sleep durations after consecutive failed _connect() calls form the
\* sequence 1.0, 1.5, 2.25, ... (each 1.5 times the previous, up to the cap),
\* are non-decreasing, never exceed 10.0 seconds, and restart at 1.0 after any
\* successful connect.  Durations are in 1/64 s.
C5_BackoffSequence ==
    pc = "sleep_backoff" =>
        /\ sleepFor # Nil
        /\ Val(sleepFor) <= MaxBackoff
        /\ prevSleep = Nil => Val(sleepFor) = InitialBackoff
        /\ prevSleep # Nil =>
             /\ Val(sleepFor) >= Val(prevSleep)
             /\ IF 3 * Val(prevSleep) <= 2 * MaxBackoff
                THEN 2 * Val(sleepFor) = 3 * Val(prevSleep)
                ELSE Val(sleepFor) = MaxBackoff

\* a sleep of 7.59375 s is followed by one of the cap, 10 s
C5_Witness ==
    /\ pc = "sleep_backoff"
    /\ prevSleep = Some(486)
    /\ sleepFor = Some(MaxBackoff)

\* the sampling thread is inside _connect, past the candidate list
InConnect ==
    pc \in {"c_open", "c_dev", "c_setport", "c_setconn", "c_start",
            "c_started", "c_warm", "c_except", "connect_ok"}

\* C6: after set_port(X) with a concrete port X has returned, the next
\* _connect() attempt that the loop begins uses [X] as its only candidate
\* port, whatever the previous target port or previously active port was.
C6_NextConnectUsesTarget ==
    (InConnect /\ beganAfter # Nil) =>
        ports_to_try = <<Val(beganAfter).port_name>>

\* a _connect begun after set_port("COM3") returned, the target before it
\* having been COM4 and the reader having held COM4 open
C6_Witness ==
    /\ pc = "c_dev"
    /\ beganAfter # Nil
    /\ Val(beganAfter).from = "COM4"
    /\ Val(beganAfter).active = "COM4"
    /\ Val(beganAfter).port_name = "COM3"
    /\ ports_to_try = <<"COM3">>
    /\ local_port = "COM3"

\* C7: _connect() tries candidate ports strictly in list order and stops at
\* the first success: with three candidates of which only the third succeeds,
\* it opens the first and the second, closes each of them before opening the
\* next, succeeds on the third, and attempts no fourth candidate.
C7_ScanInOrder ==
    InConnect =>
        /\ Len(connLog) <= Len(ports_to_try)
        /\ \A i \in 1..Len(connLog) :
             /\ connLog[i].port = ports_to_try[i]
             /\ connLog[i].ok => (i = Len(connLog) /\ pc = "connect_ok")
             /\ i < Len(connLog) => (connLog[i].opened => connLog[i].closed)
        /\ pc = "c_open" =>
             /\ opened = {}
             /\ Len(connLog) = idx - 1
             /\ \A i \in 1..Len(connLog) : connLog[i].opened => connLog[i].closed
        /\ pc = "connect_ok" =>
             /\ connLog[Len(connLog)].ok
             /\ opened = {connLog[Len(connLog)].port}

\* of four candidates the first two were opened, failed and were closed, the
\* third succeeded and the fourth was not tried
C7_Witness ==
    /\ pc = "connect_ok"
    /\ Len(ports_to_try) = 4
    /\ Len(connLog) = 3
    /\ connLog[1].opened /\ connLog[1].closed
    /\ connLog[2].opened /\ connLog[2].closed
    /\ connLog[3].ok
    /\ opened = {ports_to_try[3]}

\* C8: is_connected() returns false whenever the device handle is null,
\* whenever last_sample_time is unset, and whenever 20 seconds or more have
\* elapsed since the last successful sample even though the device handle is
\* still open; it returns true only if a handle exists and a sample was
\* received within the last 20 seconds.
C8_IsConnected ==
    LET r == is_connected(device, last_sample_time) IN
    /\ device = None => ~r
    /\ last_sample_time = Nil => ~r
    /\ (device # None /\ last_sample_time # Nil
          /\ Val(last_sample_time) >= ConnectedTicks) => ~r
    /\ r => /\ device # None
            /\ last_sample_time # Nil
            /\ Val(last_sample_time) < ConnectedTicks

\* the handle is open, the last sample is 20 s old and is_connected() is false
C8_Witness ==
    /\ device # None
    /\ last_sample_time = Some(ConnectedTicks)
    /\ ~is_connected(device, last_sample_time)


----------------------------------------------------------------------------
IsNum(v) == v.k = "num"

\* a flat sequence of four values
IsFlat4(m) == IsSeq(m) /\ Len(m.items) = 4 /\ \A i \in 1..4 : ~IsSeq(m.items[i])

\* a nested 3-element response whose first element is a sequence of four values
IsNested3(m) ==
    /\ IsSeq(m) /\ Len(m.items) = 3 /\ IsSeq(m.items[1])
    /\ Len(m.items[1].items) = 4
    /\ \A i \in 1..4 : ~IsSeq(m.items[1].items[i])

\* the four values a response of an accepted shape carries
Fields(m) == IF IsNested3(m) THEN m.items[1].items ELSE m.items

\* the response m with its i-th value replaced by v
WithField(m, i, v) ==
    IF IsNested3(m)
    THEN [m EXCEPT !.items[1].items[i] = v]
    ELSE [m EXCEPT !.items[i] = v]

\* the Sample with pm1 = a, pm25 = b, pm4 = c, pm10 = d for numbers a, b, c, d
SampleOf(q) ==
    Some([pm1 |-> F(q[1].n * FixedDivisor), pm25 |-> F(q[2].n * FixedDivisor),
          pm4 |-> F(q[3].n * FixedDivisor), pm10 |-> F(q[4].n * FixedDivisor)])

\* the Sample with pm1 = a / 100000, ..., pm10 = d / 100000
SampleOfScaled(q) ==
    Some([pm1 |-> F(q[1].n), pm25 |-> F(q[2].n),
          pm4 |-> F(q[3].n), pm10 |-> F(q[4].n)])

AllNum(q) == \A i \in 1..4 : IsNum(q[i])

\* the field of a Sample by position: pm1, pm25, pm4, pm10
Field(smp, i) ==
    IF i = 1 THEN smp.pm1 ELSE IF i = 2 THEN smp.pm25
    ELSE IF i = 3 THEN smp.pm4 ELSE smp.pm10

Accepted(kind, m) ==
    /\ m.k \in {"seq", "obj", "dict"}
    /\ IsFlat4(m) \/ IsNested3(m) \/ m.k \in {"obj", "dict"}
    /\ \A i \in 1..4 : Fields(m)[i].k \in {"num", "bad"}
    /\ LET allnum == [j \in 1..4 |-> IF Fields(m)[j].k = "bad" THEN Num(1)
                                     ELSE Fields(m)[j]]
           mm == IF IsNested3(m) THEN [m EXCEPT !.items[1].items = allnum]
                 ELSE [m EXCEPT !.items = allnum]
       IN read_measurement(kind, mm) # Nil

\* C10: on every read path and for every shape the path accepts, a single
\* unparsable field makes exactly that field NaN, the other three fields keep
\* the values they have when that field is a number, and a Sample is returned.
C10_OneBadFieldIsNaN ==
    \A i \in 1..4 :
        (/\ readDone
         /\ Accepted(readKind, readInput)
         /\ Fields(readInput)[i].k = "bad"
         /\ \A j \in (1..4) \ {i} : IsNum(Fields(readInput)[j]))
        => /\ readOutput # Nil
           /\ Field(Val(readOutput), i) = FNaN
           /\ \A j \in (1..4) \ {i} :
                Field(Val(readOutput), j)
                  = Field(Val(read_measurement(readKind,
                                WithField(readInput, i, Num(1)))), j)

\* C10 restricted to the legacy read path, where it holds
C10_LegacyOneBadFieldIsNaN == readKind = "legacy" => C10_OneBadFieldIsNaN

\* the legacy path has read a flat response whose first field is unparsable
C10_Witness ==
    /\ readDone
    /\ readKind = "legacy"
    /\ IsFlat4(readInput)
    /\ Fields(readInput) = <<Bad, Num(1), Num(2), Num(2000)>>
    /\ readOutput # Nil
    /\ Field(Val(readOutput), 1) = FNaN
    /\ Field(Val(readOutput), 4) = F(2000 * FixedDivisor)

----------------------------------------------------------------------------
\* a response of no recognised shape: not object-like, not mapping-like, not a
\* flat sequence of four or more, not nested with an inner sequence of four or more
Unrecognized(m) ==
    \/ m.k = "other"
    \/ /\ IsSeq(m)
       /\ Len(m.items) < 4
       /\ ~(Len(m.items) >= 1 /\ IsSeq(m.items[1]) /\ Len(m.items[1].items) >= 4)

\* the iteration in progress read the driver and met response m
DriverGave(m) ==
    tick # Nil /\ Val(tick).src = "driver" /\ Val(tick).m = m

\* the iteration in progress is treated as a failed read: there is no sample,
\* the callback is not reached, last_sample_time is not recorded, and once
\* the counter has been incremented it is positive
TreatedAsFailure ==
    /\ sample = Nil
    /\ pc \notin {"deliver", "record", "idle", "idle_sleep"}
    /\ pc \in {"counted", "retry_started", "sleep_retry"} =>
         consecutive_read_failures > 0

\* C11: a driver response of an unrecognized shape and any read error both
\* yield no Sample: the tick increments the consecutive-failure counter, does
\* not update last_sample_time and does not invoke the sample callback.
C11_BadReadIsFailure ==
    \A m \in LoopResponses :
        (DriverGave(m) /\ (m = Raises \/ Unrecognized(m))) => TreatedAsFailure

\* C11 for read errors on both paths and for unrecognized shapes on the modern
\* path, where it holds
C11_ReadErrorIsFailure ==
    \A m \in LoopResponses :
        (DriverGave(m) /\ (m = Raises \/ (driver = "modern" /\ Unrecognized(m))))
            => TreatedAsFailure

\* a read error has been counted as a failure
C11_Witness ==
    /\ DriverGave(Raises)
    /\ pc = "sleep_retry"
    /\ consecutive_read_failures = 2
    /\ sample = Nil

\* C12: if the sample callback raises on any invocation, the sampling loop
\* does not terminate and its state evolves exactly as if the callback had
\* returned normally: the failure counter is reset to 0, last_sample_time is
\* recorded, and the loop continues with the inter-sample sleep and the next
\* tick.  The thread ends only on the stop signal; the step after the
\* callback, raised or not, changes nothing but the position, the next one
\* records the sample, and the one after the sleep is the next iteration.
C12_Step ==
    /\ (pc = "deliver" /\ pc' # pc) =>
         /\ pc' = "record"
         /\ UNCHANGED <<fieldVars, opened, sample, backoff_s>>
    /\ (pc = "record" /\ pc' # pc) =>
         /\ pc' = "idle"
         /\ consecutive_read_failures' = 0
         /\ last_sample_time' = Some(0)
    /\ (pc = "idle" /\ pc' # pc) => pc' \in {"top", "idle_sleep"}
    /\ (pc = "idle_sleep" /\ pc' # pc) => pc' = "idle"

C12_CallbackFailureIsHarmless ==
    [](pc = "done" => stop_event) /\ [][C12_Step]_vars

\* the callback raised and the loop has recorded the sample and sleeps
C12_Witness ==
    /\ pc = "idle"
    /\ tick # Nil
    /\ Val(tick).raised
    /\ consecutive_read_failures = 0
    /\ last_sample_time = Some(0)

\* the iteration in progress fell inside the warm-up window
WarmupTick == tick # Nil /\ Val(tick).src = "warmup"

\* C13: a loop tick that falls inside the warm-up window produces no sample
\* and leaves the consecutive-failure counter unchanged: warm-up ticks are
\* skipped, not counted as failures, and never contribute to reaching the
\* threshold of 50.
C13_WarmupTickNotCounted ==
    [][(WarmupTick /\ tick' = tick) =>
          /\ sample' = Nil
          /\ consecutive_read_failures' = consecutive_read_failures]_vars

\* C13 without the counter: a tick inside the warm-up window produces no
\* sample, reaches no callback and records no last_sample_time
C13_WarmupTickNoSample ==
    WarmupTick => (sample = Nil /\ pc \notin {"deliver", "record", "idle", "idle_sleep"})

\* a tick inside the warm-up window has been counted as a failure
C13_Witness ==
    /\ WarmupTick
    /\ pc = "counted"
    /\ sample = Nil
    /\ consecutive_read_failures = 1
    /\ warmup_deadline > 0

\* C14: after every successful _connect(), the warm-up deadline is 5 seconds
\* after the connect, and no driver read is issued and no sample callback is
\* invoked for that session before the deadline has passed.
C14_NoReadBeforeDeadline ==
    /\ [](warmup_deadline > 0 =>
            /\ ~(tick # Nil /\ Val(tick).src = "driver")
            /\ pc \notin {"deliver", "record", "idle", "idle_sleep"})
    /\ [][(pc = "c_warm" /\ pc' # pc) =>
            (pc' = "connect_ok" /\ warmup_deadline' = WarmupTicks)]_vars

\* a read of the new session is suppressed inside the warm-up window
C14_Witness ==
    /\ pc = "sleep_warmup"
    /\ device # None
    /\ warmup_deadline = WarmupTicks
    /\ WarmupTick

\* what the claims about pausing say the loop leaves alone
PauseFrame ==
    <<device, conn, port, opened, measurement_started,
      consecutive_read_failures, last_sample_time, tick, sample>>

\* C15: on every loop tick at which the paused flag is observed set while a
\* device is open, the loop performs no read and no disconnect, and leaves the
\* device handle, measurement_started, the consecutive-failure counter and
\* last_sample_time unchanged; it only sleeps and re-checks.
C15_PausedTickIsIdle ==
    /\ [][(pc = "check_paused" /\ paused /\ pc' # pc) =>
            (pc' = "sleep_paused" /\ UNCHANGED PauseFrame)]_vars
    /\ [][(pc = "sleep_paused" /\ pc' # pc) =>
            (pc' = "top" /\ UNCHANGED PauseFrame)]_vars
    /\ [](pc = "sleep_paused" => tick = Nil)

\* the loop sleeps on the paused flag with an open, started device
C15_Witness ==
    /\ pc = "sleep_paused"
    /\ paused
    /\ device # None
    /\ measurement_started
    /\ last_sample_time # Nil
    /\ consecutive_read_failures = 1

\* C16: in every reachable state, after any interleaving of the loop with
\* start/pause/resume/set_port/stop, measurement_started is true only if a
\* start command succeeded on the device handle that is currently open; in
\* particular it is never true while the device handle is null, and it is
\* never carried over from a previous session to a newly opened handle.
C16_StartedOnlyOnCurrentHandle ==
    measurement_started => (device # None /\ startedHere)

\* C16, the part that holds: measurement_started goes from false to true
\* only in the step that follows a start command the driver accepted
C16_RaisedOnlyAfterStart ==
    [][(~measurement_started /\ measurement_started')
         => \/ pc \in {"c_started", "retry_started"} /\ pc' # pc
            \/ ctl = "rs_started" /\ ctl' # ctl]_vars

\* set_port has returned, the loop has since opened a new handle and reads
\* from it, and measurement_started is true although no start command was
\* sent on that handle
C16_Witness ==
    /\ setPortDone # Nil
    /\ ctl = "idle"
    /\ pc = "read"
    /\ device = Val(setPortDone).port_name
    /\ measurement_started
    /\ ~startedHere

\* the step in which set_port's call of _disconnect() runs
DisconnectStep == ctl = "sp_disconnect" /\ ctl' = "sp_last"

\* C17: _disconnect() never fails and leaves the connection state at the
\* no-device baseline: device handle, connection and port null,
\* measurement_started false, no warm-up deadline, failure counter 0 and no
\* last_sample_time; called when already disconnected it changes nothing.
C17_DisconnectLeavesBaseline ==
    [][DisconnectStep =>
         /\ device' = None /\ conn' = None /\ port' = None
         /\ ~measurement_started'
         /\ warmup_deadline' = 0
         /\ consecutive_read_failures' = 0
         /\ last_sample_time' = Nil]_vars

\* C17, the part that holds: _disconnect() always completes, leaves the
\* device handle, the connection and the port null with the port's handle
\* closed, and changes no field when they are already null.
C17_DisconnectDropsHandles ==
    [][DisconnectStep =>
         /\ device' = None /\ conn' = None /\ port' = None
         /\ port # None => port \notin opened'
         /\ (device = None /\ conn = None /\ port = None)
               => (fieldVars' = fieldVars /\ opened' = opened)]_vars

\* _disconnect() has just closed an open session whose measurement was
\* started and which had delivered a sample
C17_Witness ==
    /\ ctl = "sp_last"
    /\ ctlArg.active # None
    /\ device = None /\ conn = None /\ port = None
    /\ ctlArg.active \notin opened
    /\ measurement_started
    /\ last_sample_time # Nil

\* the step in which set_port returns to its caller
SetPortReturns == ctl = "sp_started" /\ ctl' = "idle"

\* C18: after set_port(target) has returned, under every interleaving with
\* the loop (a _connect() or a read in flight included), no session opened
\* under the previous target remains in use: the reader holds no device
\* other than one on the target, last_sample_time is cleared when the call
\* returns, and measurement_started stays cleared until a device is open.
C18_NoStaleSessionAfterSetPort ==
    (setPortDone # Nil /\ ctl = "idle") =>
        /\ device \in {None, Val(setPortDone).port_name}
        /\ device = None => ~measurement_started

\* C18, the part about last_sample_time: it is empty when set_port returns
C18_ReturnClearsLastSample ==
    [][SetPortReturns => last_sample_time' = Nil]_vars

\* C18, the part that holds: when set_port returns, the target is stored and
\* measurement_started is false
C18_ReturnStoresTarget ==
    [][SetPortReturns =>
         (uart_port' = ctlArg.port_name /\ ~measurement_started')]_vars

\* set_port("COM3") has returned and the loop delivers a sample read from
\* the session on COM4 that a _connect in flight during the call installed
C18_Witness ==
    /\ setPortDone # Nil
    /\ ctl = "idle"
    /\ Val(setPortDone).port_name = "COM3"
    /\ Val(setPortDone).from = "COM4"
    /\ device = "COM4"
    /\ port = "COM4"
    /\ pc = "deliver"
    /\ sample # Nil

\* a step of a call made from another thread (set_port, pause, resume)
ControlStep == ctl' # ctl

\* C19: the device handle, the measurement_started flag and the
\* consecutive-failure counter are read and written only by the
\* sampling-loop task: no step of a call made from another thread changes
\* any of them while the loop is running.
C19_LoopOwnsConnectionState ==
    [][(thread = "alive" /\ ControlStep) =>
         UNCHANGED <<device, measurement_started,
                     consecutive_read_failures>>]_vars

\* C19, the part that holds: no call made from another thread writes the
\* consecutive-failure counter
C19_LoopOwnsFailureCounter ==
    [][ControlStep => UNCHANGED consecutive_read_failures]_vars

\* the loop is about to read while set_port, running on another thread, has
\* just set the device handle of an open session to null
C19_Witness ==
    /\ thread = "alive"
    /\ pc = "read"
    /\ ctl = "sp_last"
    /\ ctlArg.active # None
    /\ device = None
    /\ consecutive_read_failures > 0

\* C20: under any interleaving of one add() with concurrent get_window()
\* calls, each get_window() result equals what the call would return on the
\* store contents either entirely before or entirely after that add's
\* append-and-trim, never on an appended-but-untrimmed or partially trimmed
\* deque; and the returned list is a snapshot: no step of a later add()
\* changes it.
C20_Inv ==
    (readTag = "cur" /\ addAfter # Nil) =>
        \/ window = get_window(addBefore, windowArg, Val(windowNow))
        \/ window = get_window(Val(addAfter), windowArg, Val(windowNow))

C20_Snapshot == getPc # "read" => window' = window

C20_WindowSeesWholeAdd == []C20_Inv /\ [][C20_Snapshot]_vars

\* get_window read the deque after add() was called and before it returned;
\* that add both appended a sample and trimmed one, and the list returned
\* holds the contents from before it
C20_Witness ==
    /\ readTag = "cur"
    /\ readDuring
    /\ addPc = "idle"
    /\ addAfter # Nil
    /\ addBefore # <<>>
    /\ Val(addAfter) # DequeAppend(addBefore, addArg)
    /\ windowArg = Nil
    /\ window = addBefore
    /\ window # samples

\* a call of stop() is in progress
InStop(c) == stopPc[c] # "idle"

\* a step of a call of stop() made after an earlier call has returned
SecondStopStep ==
    \E c \in StopCallers :
        /\ stopPc'[c] # stopPc[c]
        /\ IF InStop(c) THEN stopAfter[c] >= 1 ELSE stopReturns >= 1

\* C21: stop() always returns, even when the loop task is blocked in a
\* driver call or a sleep, and it is idempotent: a second stop() after the
\* first has returned changes no state and does not fail.
C21_SecondStopChangesNothing ==
    [][SecondStopStep =>
         (UNCHANGED <<uart_port, stop_event, paused, thread, device, conn,
                      port, opened, consecutive_read_failures,
                      last_sample_time, measurement_started,
                      warmup_deadline>> /\ ~ctlRaised')]_vars

\* C21, the part that holds: every call of stop() returns, whatever the
\* sampling thread does or fails to do
C21_StopReturns == \A c \in StopCallers : InStop(c) ~> ~InStop(c)

\* stop() has returned although the sampling thread was still inside
\* _connect when the join gave up, and is still there
C21_Witness ==
    /\ stopReturns = 1
    /\ stopCalls = 1
    /\ ~InStop(1) /\ ~InStop(2)
    /\ joinTimedOut
    /\ pc \in {"c_open", "c_dev", "c_setport", "c_start"}

\* stop() has returned and no call of stop() is in progress
Stopped == stopReturns >= 1 /\ \A c \in StopCallers : stopPc[c] = "idle"

\* the reader holds no device, no port and no open handle
Disconnected == device = None /\ port = None /\ opened = {}

\* C22: stop() force-disconnects: in every state after stop() has returned
\* (with no later start()) the device handle and the serial port are null
\* and closed, including when the bounded wait for the loop timed out while
\* the loop was inside _connect() or a read.
C22_StoppedMeansDisconnected == Stopped => Disconnected

\* C22, the part that holds: the same, when no join has timed out
C22_JoinedMeansDisconnected == (Stopped /\ ~joinTimedOut) => Disconnected

\* stop() returned after its join had timed out with the loop inside
\* _connect; the loop has since ended on the stop signal and the session it
\* opened is still there
C22_Witness ==
    /\ Stopped
    /\ stopCalls = 1
    /\ joinTimedOut
    /\ pc = "done"
    /\ device = "COM4"
    /\ port = "COM4"
    /\ "COM4" \in opened

\* stop() returned after a join that did not time out, on a reader that had
\* been connected and delivering samples
C22_JoinedWitness ==
    /\ Stopped
    /\ ~joinTimedOut
    /\ pc = "done"
    /\ last_sample_time # Nil
    /\ Disconnected

\* C23: every sleep of the loop task (connect backoff, warm-up, paused
\* polling, failed-read retry, post-threshold pause, inter-sample idle) is
\* interruptible by the stop signal: once the stop signal is set, the sleep
\* in progress ends within one step of the finest sleep granularity in use
\* (50 ms) rather than running to its full duration.
C23_SleepsEndWithinOneStep == overrun <= PollSleepSteps

\* C23, the part that holds: the wait for the rest of the sample period
\* ends within one step of 50 ms of the stop signal
C23_IdleEndsWithinOneStep ==
    pc \in {"idle", "idle_sleep"} => overrun <= PollSleepSteps

\* the stop signal came during a time.sleep(0.05) of the wait for the rest
\* of the sample period; that sleep is over and the wait is about to end
C23_Witness ==
    /\ pc = "idle"
    /\ stop_event
    /\ overrun = PollSleepSteps
    /\ last_sample_time # Nil

\* the sleep after a failed read goes on two steps after the stop signal
C23_RetrySleepWitness ==
    /\ pc = "sleep_retry"
    /\ stop_event
    /\ overrun = MaxOverrun

\* C24: none of start(), pause(), resume(), stop() and set_port() ever
\* raises to its caller, in any state and under any interleaving with the
\* loop or with each other, including when the driver's start, stop or
\* close operations fail.
C24_ControlCallsNeverRaise == ~ctlRaised

\* C24, the part that holds: no failure of a driver operation leaves a
\* control call; the only step that raises is the join of a stop() that
\* finds self._thread set to None by another stop() since its own test
C24_OnlyRacingJoinRaises ==
    [][(~ctlRaised /\ ctlRaised') =>
         \E c \in StopCallers :
             stopPc[c] = "join" /\ thread = None /\ stopPc'[c] = "idle"]_vars

\* stop() has returned from a _disconnect() that found an open session, the
\* driver's stop and close being free to fail
C24_Witness ==
    /\ Stopped
    /\ ~ctlRaised
    /\ last_sample_time # Nil
    /\ device = None
    /\ measurement_started

\* how many sampling threads are alive
LoopsAlive == (IF LoopEnded THEN 0 ELSE 1) + extraLoops

\* C25: for every sequence of start() and stop() calls (start() called
\* twice, and start() called after a stop() whose bounded wait timed out,
\* included), at most one sampling-loop task is alive at any time.
C25_AtMostOneLoop == LoopsAlive <= 1

\* C25, the part that holds: as long as no join of stop() has timed out, at
\* most one sampling-loop task is alive
C25_AtMostOneLoopIfJoined == ~joinTimedOut => LoopsAlive <= 1

\* start() has been called again after a stop() whose join did not time
\* out, and the new sampling thread, the only one, is reading the device
C25_Witness ==
    /\ ~joinTimedOut
    /\ stopReturns = 1
    /\ thread = "alive"
    /\ pc = "read"
    /\ device # None
    /\ LoopsAlive = 1

\* two sampling threads are alive: the one a timed-out stop() left inside
\* _connect, and the one start() created after it; the stop signal is clear
C25_TwoLoopsWitness ==
    /\ extraLoops = 1
    /\ ~stop_event
    /\ pc = "read"
    /\ device # None

\* C26: connect failures are never fatal: as long as the stop signal is not
\* set, every failed _connect() (the case that no driver is available
\* included) is eventually followed by another _connect() attempt, and the
\* loop task never ends for any reason other than observing the stop signal.
C26_ConnectFailureIsNeverFatal ==
    /\ [](pc = "done" => stop_event)
    /\ (pc = "connect_failed" /\ ~stop_event)
          ~> (pc = "connect" \/ stop_event)

\* without any driver, _connect has failed for the fifth time in a row and
\* is about to be called again
C26_Witness ==
    /\ driver = "none"
    /\ pc = "connect"
    /\ ~stop_event
    /\ backoff_s = NextBackoff(NextBackoff(NextBackoff(NextBackoff(
                       NextBackoff(InitialBackoff)))))

\* the start commands of a call that did not fail
Succeeded(in, cmds) ==
    {cmds[i] : i \in {j \in 1..Len(cmds) :
                         IF cmds[j] = "modern" THEN ~in.modernFails
                                               ELSE ~in.legacyFails}}

\* C27: _ensure_started() issues no start command and changes nothing when
\* measurement_started is already true or no device is open; otherwise it
\* attempts the parameterized (modern) start first and the parameterless
\* (legacy) start only if the modern one is unavailable or failed, sets
\* measurement_started to true exactly when one of these calls did not
\* fail, and never raises when both fail (measurement_started then stays
\* false).
C27_EnsureStarted ==
    ensureOutput # Nil =>
        LET in == ensureInput
            out == Val(ensureOutput)
        IN  /\ ~out.raised
            /\ IF in.device = None \/ in.started
               THEN out.cmds = <<>> /\ out.started = in.started
               ELSE /\ out.cmds \in {<<>>, <<"modern">>, <<"legacy">>,
                                     <<"modern", "legacy">>}
                    /\ in.hasStart => out.cmds # <<>>
                    /\ (out.cmds # <<>> /\ out.cmds[1] = "modern")
                          <=> (in.hasStart /\ in.format)
                    /\ (Len(out.cmds) > 0 /\ out.cmds[Len(out.cmds)] = "legacy")
                          <=> (in.hasStart /\ (~in.format \/ in.modernFails))
                    /\ out.started <=> Succeeded(in, out.cmds) # {}

\* both start calls were made on an open device and both failed
C27_Witness ==
    /\ ensureOutput # Nil
    /\ ensureInput.device # None
    /\ ~ensureInput.started
    /\ Val(ensureOutput).cmds = <<"modern", "legacy">>
    /\ ensureInput.legacyFails
    /\ ~Val(ensureOutput).started

\* C28: on a successful read the loop resets the failure counter to 0 and
\* records _last_sample_time before it invokes the sample callback, so that
\* during the callback the counter is 0 and is_connected() is true.
C28_RecordedBeforeCallback ==
    pc = "deliver" =>
        /\ consecutive_read_failures = 0
        /\ is_connected(device, last_sample_time)

\* C28, the part that holds: the callback runs with the counter and
\* _last_sample_time as the read left them; the statement after the
\* callback, whether it raised or not, resets the counter and records
\* _last_sample_time as now.
C28_RecordedAfterCallback ==
    [][/\ (pc = "deliver" /\ pc' # pc) =>
            /\ pc' = "record"
            /\ UNCHANGED <<consecutive_read_failures, last_sample_time>>
       /\ (pc = "record" /\ pc' # pc) =>
            /\ consecutive_read_failures' = 0
            /\ last_sample_time' = Some(0)]_vars

\* the callback is about to run for the first sample of the thread, which
\* was read after a failed read: the counter is 1 and no sample time is set
C28_Witness ==
    /\ pc = "deliver"
    /\ consecutive_read_failures = 1
    /\ last_sample_time = Nil
    /\ device # None
    /\ ~is_connected(device, last_sample_time)

\* C29: once the stop signal is set and no new start() occurs, the sampling
\* loop begins no new _connect() and no new read after it next evaluates its
\* loop condition, and the loop task eventually exits: _connect() is begun
\* only from a loop condition evaluated without the signal, a read only
\* from such an evaluation or from the connect that followed one; with the
\* signal set the evaluation leaves the loop, for good.
C29_LoopExitsOnStop ==
    /\ [][/\ (pc' = "connect" /\ pc # "connect") =>
                (pc = "top" /\ ~stop_event)
          /\ (pc' = "check_paused" /\ pc # "check_paused") =>
                ((pc = "top" /\ ~stop_event) \/ pc = "connect_ok")
          /\ (pc' = "read" /\ pc # "read") => pc = "check_paused"
          /\ (pc = "top" /\ stop_event /\ pc' # pc) => pc' = "done"
          /\ pc = "done" => pc' = "done"
          /\ stop_event => stop_event']_vars
    /\ (stop_event /\ thread # None) ~> LoopEnded

\* the loop has ended on a stop signal that arrived during a read, after one
\* sample had been delivered
C29_Witness ==
    /\ pc = "done"
    /\ stop_event
    /\ stopCalls = 1
    /\ last_sample_time # Nil
    /\ device # None

\* the connection test has paused and disconnected the reader and has not
\* resumed it
TestHoldsPort == ctl = "ct_testing"

\* C30: during a connection test, after the reader has been paused and
\* disconnected, the sampling loop does not open any serial port until the
\* reader is resumed.
C30_NoPortOpenedDuringTest ==
    [][TestHoldsPort => opened' \subseteq opened]_vars

\* C30, the part that holds: during a connection test, after the reader has
\* been paused and disconnected, the sampling loop begins no read until the
\* reader is resumed.
C30_NoReadBegunDuringTest ==
    [][TestHoldsPort => ~(pc' = "read" /\ pc # "read")]_vars

\* while the test holds the reader paused and disconnected, the sampling
\* thread has opened the port again and bound a device to it
C30_Witness ==
    /\ TestHoldsPort
    /\ paused
    /\ ~ctlArg.was_paused
    /\ "COM4" \in opened
    /\ device = "COM4"
    /\ pc = "check_paused"

\* the handles the reader can still close: the one in self._port, and the
\* local variable port of a _connect() in progress
Reachable ==
    ({port} \cup (IF pc \in {"c_open", "c_dev", "c_setport", "c_setconn",
                             "c_start", "c_started", "c_warm", "c_except"}
                  THEN {local_port} ELSE {})) \ {None}

\* C31: the reader holds at most one open serial handle at any time; under
\* every interleaving of the loop's _connect() with _disconnect() called
\* from set_port(), stop() or the connection test, a previously opened
\* handle is closed before a new one is opened, and every handle opened by
\* _connect() is either the active port or has been closed.
C31_OneHandle ==
    /\ Cardinality(opened) <= 1
    /\ opened \subseteq Reachable

\* C31, the part that holds: as long as no other thread has called
\* _disconnect(), the sampling thread holds at most one open handle, and it
\* is the active port or the candidate of the _connect() in progress.
C31_OneHandleWithoutCallers ==
    setPortCalls = 0 =>
        /\ Cardinality(opened) <= 1
        /\ opened \subseteq Reachable

\* set_port("COM3") disconnected between the two assignments of a _connect()
\* on COM4; the next _connect() opened COM3 while COM4 is still held open
C31_Witness ==
    /\ opened = {"COM3", "COM4"}
    /\ port = "COM3"
    /\ device = "COM3"
    /\ uart_port = "COM3"
    /\ setPortCalls = 1
    /\ ctl = "idle"

\* the sampling thread invokes the sample callback
CallbackStep == pc = "deliver" /\ pc' # pc

\* C32: after stop() has returned, the sample callback is never invoked
\* again, including when stop() returned because its bounded wait for the
\* loop timed out.
C32_NoCallbackAfterStop ==
    [][stopReturns >= 1 => ~CallbackStep]_vars

\* C32, the part that holds: after a stop() whose join did not time out has
\* returned, the sample callback is never invoked again.
C32_NoCallbackAfterJoinedStop ==
    [][(stopReturns >= 1 /\ ~joinTimedOut) => ~CallbackStep]_vars

\* stop() has returned after its join timed out during a read, and has
\* disconnected; the read has yielded a sample and the loop is about to
\* invoke the callback with it
C32_Witness ==
    /\ pc = "deliver"
    /\ sample # Nil
    /\ Stopped
    /\ joinTimedOut
    /\ stop_event
    /\ thread = None
    /\ device = None

====
